---- MODULE Spec2Model ----
(***************************************************************************)
(* Model of the topic/comment core of novem/cli/gql.py: the adaptive      *)
(* topic fetcher (fetch_topics_gql with _build_topics_query,              *)
(* _has_truncated_replies and NovemGQL._query), the text helpers           *)
(* (_visible_len, _wrap_text) and the renderer (render_topics with         *)
(* _render_comment and _relative_time), the list helpers                   *)
(* _aggregate_activity and _transform_orgs_response, and merge_from_index  *)
(* of novem/table/utils/format.py.                                         *)
(*                                                                         *)
(* Specifications:                                                         *)
(*   Spec       calls of fetch_topics_gql against an arbitrary transport   *)
(*   FairSpec   Spec with a transport that answers every request           *)
(*   SpecTrunc  _has_truncated_replies on bounded comment forests          *)
(*   SpecQuery  _build_topics_query on every kind and depth                *)
(*   SpecLen    _visible_len on bounded strings and insertions             *)
(*   SpecWrap   _wrap_text on bounded texts, prefixes and widths           *)
(*   SpecRender render_topics on bounded lists of topics with comments     *)
(*   SpecShow   fetch_topics_gql followed by the rendering of its result   *)
(*   SpecSparse render_topics on topics with absent, empty or null fields  *)
(*   SpecMe     render_topics for every caller                             *)
(*   SpecTree   render_topics on every tree of comments                    *)
(*   SpecTime   _relative_time on ages around the bounds of its ranges     *)
(*   SpecFaithful  fetch_topics_gql against a backend that cuts the tree   *)
(*              at the depth of the query                                  *)
(*   SpecMerge  merge_from_index on bounded indexes                        *)
(*   SpecActivity  _aggregate_activity on bounded lists of topics          *)
(*   SpecOrgs   _transform_orgs_response on bounded bodies                 *)
(***************************************************************************)
EXTENDS Naturals, Integers, Sequences, FiniteSets, TLC

VARIABLES
    pc,        \* position of the caller in fetch_topics_gql
    vis_type,  \* argument vis_type of the running call
    depth,     \* local variable depth
    topics,    \* local variable topics
    sent,      \* the queries posted by the running call, in order
    last,      \* the last response the transport gave
    hist,      \* what the transport answered to each request of the call
    result,    \* the value returned by the call
    exc,       \* the exception that left the call
    calls,     \* number of calls started
    fn,        \* the pure function under evaluation ("" when none)
    arg,       \* its arguments
    out        \* <<>> before the function is applied, <<value>> after

vars == <<pc, vis_type, depth, topics, sent, last, hist, result, exc, calls, fn, arg, out>>

(***************************************************************************)
(* Bounds of the model.                                                    *)
(***************************************************************************)
MaxCalls == 2          \* calls of fetch_topics_gql in one behaviour
MaxFetchNodes == 3     \* topics plus comments in one transport response
MaxNodes == 3          \* comments in a forest given to the detector
MaxRenderNodes == 4    \* topics plus comments given to render_topics
MaxQueryDepth == 13    \* largest depth given to _build_topics_query
MaxStrLen == 3         \* characters of a string given to _visible_len
MaxTokens == 3         \* words, blanks, newlines and colour codes of a text given to _wrap_text

NumRepliesValues == 0..3       \* declared reply counts (detector)
FetchNumReplies == {0, 2}      \* declared reply counts (transport responses)
VisTypes == {"plots", "grids", "mails", "docs", "repos", "jobs"}
FetchVisTypes == {"plots", "mails"}   \* kinds the calls of fetch_topics_gql are made with

Min(S) == CHOOSE m \in S : \A k \in S : m <= k
Max(S) == CHOOSE m \in S : \A k \in S : m >= k

RECURSIVE Ascending(_)
Ascending(S) == IF S = {} THEN <<>> ELSE <<Min(S)>> \o Ascending(S \ {Min(S)})

(***************************************************************************)
(* Comment trees as the decoded JSON holds them: a comment is a record    *)
(* with its declared reply count num_replies and, when the key is there,   *)
(* its materialized replies; a topic is a record with its root comments.   *)
(* The trees are enumerated from parent arrays: node i hangs under node    *)
(* p[i] < i, 0 is the top; with omit, a comment without replies has no     *)
(* "replies" key (the deepest level of a query does not select it).        *)
(***************************************************************************)
Parents(n) == {p \in [1..n -> 0..n] : \A i \in 1..n : p[i] < i}

RECURSIVE Comments(_, _, _, _, _)
Comments(p, nr, n, par, omit) ==
    LET cs == Ascending({i \in 1..n : p[i] = par})
    IN  [k \in 1..Len(cs) |->
            LET sub == Comments(p, nr, n, cs[k], omit)
            IN  IF sub = <<>> /\ omit
                THEN [num_replies |-> nr[cs[k]]]
                ELSE [num_replies |-> nr[cs[k]], replies |-> sub]]

TopicList(p, nr, n, omit) ==
    LET ts == Ascending({i \in 1..n : p[i] = 0})
    IN  [k \in 1..Len(ts) |-> [comments |-> Comments(p, nr, n, ts[k], omit)]]

CommentForests ==
    UNION {{Comments(p, nr, n, 0, omit)
              : p \in Parents(n), nr \in [1..n -> NumRepliesValues], omit \in BOOLEAN}
           : n \in 0..MaxNodes}

TopicLists ==
    UNION {{TopicList(p, nr, n, TRUE) : p \in Parents(n), nr \in [1..n -> FetchNumReplies]}
           : n \in 0..MaxFetchNodes}

\* c.get("replies", []) or []
GetReplies(c) == IF "replies" \in DOMAIN c THEN c.replies ELSE <<>>

\* Every comment of a forest, at any depth.
RECURSIVE AllComments(_)
AllComments(comments) ==
    UNION {{comments[i]} \cup AllComments(GetReplies(comments[i])) : i \in DOMAIN comments}

\* Section 3 of the design: a comment is truncated when it declares replies
\* and none is materialized; a forest is complete iff no comment is truncated.
IsTruncatedComment(c) == c.num_replies > 0 /\ GetReplies(c) = <<>>
Incomplete(comments) == \E c \in AllComments(comments) : IsTruncatedComment(c)

(***************************************************************************)
(* _build_comment_fragment / _build_topics_query.  A query is the sequence *)
(* of the pieces of its text: a block of field names, the opening line of  *)
(* a selection, or a closing brace.                                        *)
(***************************************************************************)
_COMMENT_FIELDS ==
    "comment_id slug message depth deleted edited num_replies likes dislikes my_reaction created updated creator { username }"

_TOPIC_FIELDS ==
    "topic_id slug message audience status num_comments likes dislikes my_reaction edited created updated creator { username }"

RECURSIVE FragmentLoop(_, _)
FragmentLoop(fragment, n) ==
    IF n = 0 THEN fragment
    ELSE FragmentLoop(<<_COMMENT_FIELDS, "replies {">> \o fragment \o <<"}">>, n - 1)

\* range(depth - 1) where the code has range(depth).
_build_comment_fragment_short(d) == FragmentLoop(<<_COMMENT_FIELDS>>, IF d > 0 THEN d - 1 ELSE 0)

\* fragment = _COMMENT_FIELDS; for _ in range(depth): ...
_build_comment_fragment(d) == FragmentLoop(<<_COMMENT_FIELDS>>, d)

_TOPICS_QUERY_TPL(vt, comment_fragment) ==
    << "query GetTopics($id: ID!, $author: String) {",
       vt \o "(id: $id, author: $author) {",
       "topics {",
       _TOPIC_FIELDS,
       "comments {" >>
    \o comment_fragment \o << "}", "}", "}", "}" >>

\* The query with one level of replies less than the depth asked for.
_build_topics_query_shallow(vt, d) ==
    _TOPICS_QUERY_TPL(vt, _build_comment_fragment(IF d > 0 THEN d - 1 ELSE 0))
_build_topics_query(vt, d) == _TOPICS_QUERY_TPL(vt, _build_comment_fragment(d))

\* How deep the "replies" selections of a query nest below "comments {":
\* the selections still open at a line are the opening lines before it minus
\* the closing ones.
OpenLines ==
    {"query GetTopics($id: ID!, $author: String) {", "topics {", "comments {", "replies {"}
    \cup {vt \o "(id: $id, author: $author) {" : vt \in VisTypes}

BraceDepth(q, i) ==
    Cardinality({j \in 1..i : q[j] \in OpenLines}) - Cardinality({j \in 1..i : q[j] = "}"})

LinesOf(q, tok) == {i \in DOMAIN q : q[i] = tok}

ReplyLevel(q, i) == BraceDepth(q, i) - BraceDepth(q, Min(LinesOf(q, "comments {")))

ReplyNesting(q) ==
    IF LinesOf(q, "replies {") = {} THEN 0
    ELSE Max({ReplyLevel(q, i) : i \in LinesOf(q, "replies {")})
Count(q, tok) == Cardinality(LinesOf(q, tok))

(***************************************************************************)
(* _has_truncated_replies: the loop over the comments, with its two early  *)
(* returns.                                                                *)
(***************************************************************************)
\* The loop without the descent into the replies.
RECURSIVE TruncLoop_flat(_, _)
TruncLoop_flat(comments, i) ==
    IF i > Len(comments) THEN FALSE
    ELSE IF comments[i].num_replies > 0 /\ GetReplies(comments[i]) = <<>> THEN TRUE
    ELSE TruncLoop_flat(comments, i + 1)

\* The loop with num_replies >= 0 where the code has num_replies > 0.
RECURSIVE TruncLoop_geq(_, _)
TruncLoop_geq(comments, i) ==
    IF i > Len(comments) THEN FALSE
    ELSE LET c == comments[i]
             replies == GetReplies(c)
         IN  IF c.num_replies >= 0 /\ replies = <<>> THEN TRUE
             ELSE IF replies # <<>> /\ TruncLoop_geq(replies, 1) THEN TRUE
             ELSE TruncLoop_geq(comments, i + 1)

RECURSIVE TruncLoop(_, _)
TruncLoop(comments, i) ==
    IF i > Len(comments) THEN FALSE
    ELSE LET c == comments[i]
             replies == GetReplies(c)
         IN  IF c.num_replies > 0 /\ replies = <<>> THEN TRUE
             ELSE IF replies # <<>> /\ TruncLoop(replies, 1) THEN TRUE
             ELSE TruncLoop(comments, i + 1)

_has_truncated_replies(comments) == TruncLoop(comments, 1)

(***************************************************************************)
(* Strings are sequences of characters.  _visible_len removes the matches  *)
(* of \033\[[0-9;]*m as re.sub does, scanning from the left: at a position *)
(* where the pattern matches, the match is dropped and the scan goes on    *)
(* behind it, elsewhere the character is kept.  [0-9;]* is greedy and 'm'  *)
(* is not in the class, so the pattern matches at i iff the first          *)
(* character behind the run of class characters is 'm'.                    *)
(***************************************************************************)
ESC == "\\033"
SgrClass == {"0", "1", "2", "3", "4", "5", "6", "7", "8", "9", ";"}

\* First position >= i of s that holds no class character (Len(s) + 1 if none).
RunEnd(s, i) == Min({k \in i..(Len(s) + 1) : k = Len(s) + 1 \/ s[k] \notin SgrClass})

\* The pattern without its closing 'm'.
MatchEnd_open(s, i) ==
    IF i + 1 <= Len(s) /\ s[i] = ESC /\ s[i + 1] = "["
    THEN RunEnd(s, i + 2) - 1
    ELSE 0

\* Last position of the match of the pattern that starts at i, 0 if none.
MatchEnd(s, i) ==
    IF i + 1 <= Len(s) /\ s[i] = ESC /\ s[i + 1] = "["
    THEN LET k == RunEnd(s, i + 2)
         IN  IF k <= Len(s) /\ s[k] = "m" THEN k ELSE 0
    ELSE 0

RECURSIVE StripAnsi(_, _)
StripAnsi(s, i) ==
    IF i > Len(s) THEN <<>>
    ELSE IF MatchEnd(s, i) > 0 THEN StripAnsi(s, MatchEnd(s, i) + 1)
    ELSE <<s[i]>> \o StripAnsi(s, i + 1)

_visible_len(s) == Len(StripAnsi(s, 1))

(***************************************************************************)
(* _wrap_text.  str.splitlines cuts the text at its newlines and yields no *)
(* empty last piece.  textwrap.wrap (defaults: break_long_words,           *)
(* drop_whitespace) cuts a line into chunks, the maximal runs of blanks    *)
(* and of other characters, cut again behind the hyphens of hyphenated     *)
(* words and around em-dashes, and fills each output line greedily with    *)
(* chunks: a blank chunk that would start a line after the first is        *)
(* dropped, a chunk longer than the width is cut at the space left, a      *)
(* blank chunk ending a line is dropped, an empty line is not emitted.     *)
(***************************************************************************)
NL == "\n"
SP == " "

\* s.split("\n"): the pieces between the newlines, the piece behind the last
\* newline included.
str_split(s) ==
    LET cuts == Ascending({i \in DOMAIN s : s[i] = NL})
        from(k) == IF k = 1 THEN 1 ELSE cuts[k - 1] + 1
        to(k) == IF k = Len(cuts) + 1 THEN Len(s) ELSE cuts[k] - 1
    IN  [k \in 1..(Len(cuts) + 1) |-> SubSeq(s, from(k), to(k))]

\* text.split("\n") where the code has text.splitlines().
splitlines_split(s) == str_split(s)

\* text.splitlines()
splitlines(s) ==
    LET cuts == Ascending({i \in DOMAIN s : s[i] = NL})
        from(k) == IF k = 1 THEN 1 ELSE cuts[k - 1] + 1
        head == [k \in 1..Len(cuts) |-> SubSeq(s, from(k), cuts[k] - 1)]
        tail == SubSeq(s, from(Len(cuts) + 1), Len(s))
    IN  IF tail = <<>> THEN head ELSE Append(head, tail)

\* The character classes of textwrap's wordsep_re: letters, \w, and the
\* characters an em-dash may follow.
Letters ==
    {"a", "b", "c", "d", "e", "f", "g", "h", "i", "j", "k", "l", "m",
     "n", "o", "p", "q", "r", "s", "t", "u", "v", "w", "x", "y", "z", "_"}
WordChars == Letters \cup {"0", "1", "2", "3", "4", "5", "6", "7", "8", "9"}
WordPunct == WordChars \cup {"!", "\"", "'", "&", ".", ",", "?"}

\* wordsep_re, hyphenated word: a chunk ends behind the hyphen s[h] when two
\* letters, or letter-hyphen-letter, stand before it and a letter, an
\* optional hyphen and a letter behind it.
HyphenCut(s, h) ==
    /\ s[h] = "-"
    /\ \/ h >= 3 /\ s[h - 2] \in Letters /\ s[h - 1] \in Letters
       \/ h >= 4 /\ s[h - 3] \in Letters /\ s[h - 2] = "-" /\ s[h - 1] \in Letters
    /\ h + 2 <= Len(s)
    /\ s[h + 1] \in Letters
    /\ \/ s[h + 2] \in Letters
       \/ s[h + 2] = "-" /\ h + 3 <= Len(s) /\ s[h + 3] \in Letters

\* wordsep_re, em-dash: s[i..j] is a run of two or more hyphens between a
\* word character (or punctuation) and a word character.
EmDash(s, i, j) ==
    /\ 1 < i /\ i < j /\ j < Len(s)
    /\ \A k \in i..j : s[k] = "-"
    /\ s[i - 1] \in WordPunct
    /\ s[j + 1] \in WordChars

\* A chunk starts at i: at a change between blanks and other characters,
\* behind a hyphen of a hyphenated word, before and behind an em-dash.
ChunkStart(s, i) ==
    \/ i = 1
    \/ (s[i] = SP) # (s[i - 1] = SP)
    \/ HyphenCut(s, i - 1)
    \/ \E j \in i..Len(s) : EmDash(s, i, j)
    \/ \E k \in 1..(i - 1) : EmDash(s, k, i - 1)

\* TextWrapper._split: the pieces wordsep_re cuts the line into.
Chunks(s) ==
    LET starts == Ascending({i \in DOMAIN s : ChunkStart(s, i)})
        stop(k) == IF k = Len(starts) THEN Len(s) ELSE starts[k + 1] - 1
    IN  [k \in 1..Len(starts) |-> SubSeq(s, starts[k], stop(k))]

\* chunk.strip() == ''
IsBlank(chunk) == \A i \in DOMAIN chunk : chunk[i] = SP

RECURSIVE Join(_)
Join(chunks) == IF chunks = <<>> THEN <<>> ELSE Head(chunks) \o Join(Tail(chunks))

RECURSIVE SumLen(_, _)
SumLen(chunks, n) == IF n = 0 THEN 0 ELSE Len(chunks[n]) + SumLen(chunks, n - 1)

\* How many chunks the inner loop of _wrap_chunks puts on the current line.
Fitting(chunks, width) == Max({n \in 0..Len(chunks) : SumLen(chunks, n) <= width})

\* _handle_long_word with break_long_words off: a chunk too long for any
\* line is put whole on a line of its own.
LongWord_whole(cur, rest, width) ==
    IF cur = <<>> THEN [cur |-> <<rest[1]>>, rest |-> Tail(rest)]
    ELSE [cur |-> cur, rest |-> rest]

\* _handle_long_word: the next chunk is cut at the space left on the line,
\* or behind the last hyphen within that space when other characters stand
\* before that hyphen.
LongWord(cur, rest, width) ==
    LET space_left == width - SumLen(cur, Len(cur))
        chunk == rest[1]
        hyphen == Max({0} \cup {k \in 1..space_left : chunk[k] = "-"})
        end == IF hyphen > 1 /\ \E k \in 1..(hyphen - 1) : chunk[k] # "-"
               THEN hyphen
               ELSE space_left
    IN  [cur |-> Append(cur, SubSeq(chunk, 1, end)),
         rest |-> <<SubSeq(chunk, end + 1, Len(chunk))>> \o Tail(rest)]

\* TextWrapper._wrap_chunks: one round of the outer loop per call.
RECURSIVE WrapChunks(_, _, _)
WrapChunks(chunks, lines, width) ==
    IF chunks = <<>> THEN lines
    ELSE LET cs == IF IsBlank(chunks[1]) /\ lines # <<>> THEN Tail(chunks) ELSE chunks
             n == Fitting(cs, width)
             fit == [cur |-> SubSeq(cs, 1, n), rest |-> SubSeq(cs, n + 1, Len(cs))]
             st == IF fit.rest # <<>> /\ Len(fit.rest[1]) > width
                   THEN LongWord(fit.cur, fit.rest, width)
                   ELSE fit
             cur == IF st.cur # <<>> /\ IsBlank(st.cur[Len(st.cur)])
                    THEN SubSeq(st.cur, 1, Len(st.cur) - 1)
                    ELSE st.cur
         IN  WrapChunks(st.rest, IF cur # <<>> THEN Append(lines, Join(cur)) ELSE lines, width)

\* textwrap.wrap(line, width=width)
textwrap_wrap(line, width) == WrapChunks(Chunks(line), <<>>, width)

min_available == 20

\* available = width - indent_width without the indent.
Available_noindent(prefix, width) == IF width < min_available THEN min_available ELSE width

\* lines 1463-1466
Available(prefix, width) ==
    LET indent_width == _visible_len(prefix)
        available == width - indent_width
    IN  IF available < min_available THEN min_available ELSE available

\* lines 1470-1475: the output lines of one line of the text
WrapLine(line, prefix, available) ==
    IF line = <<>> THEN <<prefix>>
    ELSE LET w == textwrap_wrap(line, available)
             wrapped == IF w = <<>> THEN << <<>> >> ELSE w
         IN  [k \in 1..Len(wrapped) |-> prefix \o wrapped[k]]

RECURSIVE WrapLines(_, _, _)
WrapLines(ls, prefix, available) ==
    IF ls = <<>> THEN <<>>
    ELSE WrapLine(Head(ls), prefix, available) \o WrapLines(Tail(ls), prefix, available)

_wrap_text(text, prefix, width) == WrapLines(splitlines(text), prefix, Available(prefix, width))

(***************************************************************************)
(* The renderer.  The colour codes cl.* come from novem.utils; the box      *)
(* glyphs of the tree are written with one ASCII character each:           *)
(* "/" the top corner, "|" the rail, "=" the branch, "L" the closing        *)
(* corner, "*" the separator dot.                                          *)
(***************************************************************************)
cl_BOLD == <<ESC, "[", "1", "m">>
cl_ENDC == <<ESC, "[", "0", "m">>
cl_FGGRAY == <<ESC, "[", "3", "8", ";", "5", ";", "2", "4", "6", "m">>
cl_OKCYAN == <<ESC, "[", "9", "6", "m">>
cl_WARNING == <<ESC, "[", "9", "3", "m">>

GLYPH_TOP == "/"
GLYPH_RAIL == "|"
GLYPH_BRANCH == "="
GLYPH_CORNER == "L"
GLYPH_DOT == "*"

\* d.get(key, default)
Get(d, key, default) == IF key \in DOMAIN d THEN d[key] ELSE default

\* The decoded JSON null (None) where a string, a number, a list or an
\* object is expected, and the object without keys.
NullStr == <<"None">>
NullInt == -1
NullObject == [null |-> TRUE]
EmptyObject == [null |-> FALSE]
NullList == <<NullObject>>

\* x or "", x or []
OrStr(x) == IF x = NullStr THEN <<>> ELSE x
OrList(x) == IF x = NullList THEN <<>> ELSE x

\* The truth value of a number and of a string in a test.
TruthyInt(n) == n # 0 /\ n # NullInt
TruthyStr(s) == s # <<>> /\ s # NullStr

\* An exception raised inside an expression is carried by the string that
\* was being built, as the one element AttributeError: the call raises.
AttributeError == "AttributeError"
Raised(s) == \E i \in DOMAIN s : s[i] = AttributeError

\* str(n) for a natural number.
Digits == <<"0", "1", "2", "3", "4", "5", "6", "7", "8", "9">>
RECURSIVE Str(_)
Str(n) == IF n < 10 THEN <<Digits[n + 1]>> ELSE Str(n \div 10) \o <<Digits[(n % 10) + 1]>>

\* f"{n}" for a count of the decoded body
Format(n) == IF n = NullInt THEN <<"N", "o", "n", "e">> ELSE Str(n)

\* sep.join(pieces)
RECURSIVE JoinWith(_, _)
JoinWith(pieces, sep) ==
    IF pieces = <<>> THEN <<>>
    ELSE IF Len(pieces) = 1 THEN pieces[1]
    ELSE pieces[1] \o sep \o JoinWith(Tail(pieces), sep)

\* parse_api_datetime: no datetime (<<>>) for an empty, null or malformed
\* string.
\* A parsed datetime is held as its distance to now in whole seconds
\* (int(delta.total_seconds())) and its calendar date.
parse_api_datetime(created_str) == created_str

\* dt.strftime("%b %d, %Y"), for a year of four digits
MonthAbbr ==
    <<<<"J", "a", "n">>, <<"F", "e", "b">>, <<"M", "a", "r">>, <<"A", "p", "r">>,
      <<"M", "a", "y">>, <<"J", "u", "n">>, <<"J", "u", "l">>, <<"A", "u", "g">>,
      <<"S", "e", "p">>, <<"O", "c", "t">>, <<"N", "o", "v">>, <<"D", "e", "c">>>>
strftime(dt) ==
    MonthAbbr[dt.month] \o <<SP>>
       \o (IF dt.day < 10 THEN <<"0">> ELSE <<>>) \o Str(dt.day)
       \o <<",", SP>> \o Str(dt.year)

\* The bounds of the ranges taken as part of the earlier range.
_relative_time_inclusive(dt) ==
    LET seconds == dt.seconds
        minutes == seconds \div 60
        hours == minutes \div 60
        days == hours \div 24
    IN  IF seconds <= 60 THEN <<"j", "u", "s", "t", SP, "n", "o", "w">>
        ELSE IF minutes <= 60 THEN Str(minutes) \o <<"m", SP, "a", "g", "o">>
        ELSE IF hours <= 24 THEN Str(hours) \o <<"h", SP, "a", "g", "o">>
        ELSE IF days <= 30 THEN Str(days) \o <<"d", SP, "a", "g", "o">>
        ELSE strftime(dt)
\* _relative_time(dt)
_relative_time(dt) ==
    LET seconds == dt.seconds
        minutes == seconds \div 60
        hours == minutes \div 60
        days == hours \div 24
    IN  IF seconds < 60 THEN <<"j", "u", "s", "t", SP, "n", "o", "w">>
        ELSE IF minutes < 60 THEN Str(minutes) \o <<"m", SP, "a", "g", "o">>
        ELSE IF hours < 24 THEN Str(hours) \o <<"h", SP, "a", "g", "o">>
        ELSE IF days < 30 THEN Str(days) \o <<"d", SP, "a", "g", "o">>
        ELSE strftime(dt)

\* lines 1499-1503, 1574-1578
Timestamp(d) ==
    LET dt == parse_api_datetime(Get(d, "created", <<>>))
    IN  IF dt # <<>> THEN _relative_time(dt[1]) ELSE <<>>

\* _get_term_width, columns being shutil.get_terminal_size().columns
_get_term_width(columns) == Min({120, columns})

\* f" {cl.FGGRAY}({', '.join(items)}){cl.ENDC}" if items else ""
ParenStr(items) ==
    IF items # <<>>
    THEN <<SP>> \o cl_FGGRAY \o <<"(">> \o JoinWith(items, <<",", SP>>) \o <<")">> \o cl_ENDC
    ELSE <<>>

\* The markers of a comment with "deleted" taking the place of "edited".
Markers_deleted_only(edited, deleted) ==
    IF deleted THEN << <<"d", "e", "l", "e", "t", "e", "d">> >> ELSE IF edited THEN << <<"e", "d", "i", "t", "e", "d">> >> ELSE <<>>

\* lines 1505-1510: the markers of a comment
Markers(edited, deleted) ==
    (IF edited THEN << <<"e", "d", "i", "t", "e", "d">> >> ELSE <<>>) \o (IF deleted THEN << <<"d", "e", "l", "e", "t", "e", "d">> >> ELSE <<>>)

\* The reactions without the tests of the counts.
Reactions_always(likes, dislikes) == << <<"+">> \o Str(likes), <<"-">> \o Str(dislikes) >>

\* lines 1513-1520, 1588-1594: the reactions of a comment or topic
Reactions(likes, dislikes) ==
    (IF TruthyInt(likes) THEN << <<"+">> \o Str(likes) >> ELSE <<>>)
    \o (IF TruthyInt(dislikes) THEN << <<"-">> \o Str(dislikes) >> ELSE <<>>)

\* f" {cl.FGGRAY}[{' '.join(reactions)}]{cl.ENDC}" if reactions else ""
ReactionStr(reactions) ==
    IF reactions # <<>>
    THEN <<SP>> \o cl_FGGRAY \o <<"[">> \o JoinWith(reactions, <<SP>>) \o <<"]">> \o cl_ENDC
    ELSE <<>>

\* The caller's own username marked by a following "(you)" as well.
HeaderHead_you(username, ts, me) ==
    LET mine == me # <<>> /\ username = me
        user_color == IF mine THEN cl_WARNING ELSE cl_OKCYAN
    IN  user_color \o <<"@">> \o username \o cl_ENDC
        \o (IF mine THEN <<SP, "(", "y", "o", "u", ")">> ELSE <<>>)
        \o <<SP>> \o cl_FGGRAY \o <<GLYPH_DOT>> \o cl_ENDC \o <<SP>>
        \o cl_FGGRAY \o ts \o cl_ENDC

\* user_color, "@username", the separator dot and the timestamp
HeaderHead(username, ts, me) ==
    LET user_color == IF me # <<>> /\ username = me THEN cl_WARNING ELSE cl_OKCYAN
    IN  user_color \o <<"@">> \o username \o cl_ENDC
        \o <<SP>> \o cl_FGGRAY \o <<GLYPH_DOT>> \o cl_ENDC \o <<SP>>
        \o cl_FGGRAY \o ts \o cl_ENDC

\* d.get("creator", {}).get("username", "?"): None has no get
UserOf(d) ==
    LET creator == Get(d, "creator", EmptyObject)
    IN  IF creator = NullObject THEN <<AttributeError>> ELSE Get(creator, "username", <<"?">>)

\* The body of a deleted comment rendered like any other.
CommentBody_shown(deleted, message, body_prefix, width) ==
    IF message # <<>> THEN _wrap_text(message, body_prefix, width) ELSE <<>>

\* lines 1534-1539: the body lines of a comment
CommentBody(deleted, message, body_prefix, width) ==
    IF deleted THEN << body_prefix \o cl_FGGRAY \o <<"[", "d", "e", "l", "e", "t", "e", "d", "]">> \o cl_ENDC >>
    ELSE IF message # <<>> THEN _wrap_text(message, body_prefix, width)
    ELSE <<>>

\* The connector and the prefix passed down, for a child that is or is not
\* the last of its siblings, with the two cases swapped.
Branch_swapped(is_last) ==
    IF is_last THEN [connector |-> <<GLYPH_BRANCH, SP>>, child_prefix |-> <<GLYPH_RAIL, SP>>]
    ELSE [connector |-> <<GLYPH_CORNER, SP>>, child_prefix |-> <<SP, SP>>]

\* lines 1544-1546, 1619-1621
Branch(is_last) ==
    IF is_last THEN [connector |-> <<GLYPH_CORNER, SP>>, child_prefix |-> <<SP, SP>>]
    ELSE [connector |-> <<GLYPH_BRANCH, SP>>, child_prefix |-> <<GLYPH_RAIL, SP>>]

\* The replies of a deleted comment left out.
RepliesOf_undeleted(comment) ==
    IF Get(comment, "deleted", FALSE) THEN <<>> ELSE OrList(Get(comment, "replies", <<>>))

\* line 1542: replies = comment.get("replies", []) or []
RepliesOf(comment) == OrList(Get(comment, "replies", <<>>))

\* _render_comment; the width is never 0 here, render_topics passes its own.
RECURSIVE _render_comment(_, _, _, _, _, _)
_render_comment(comment, prefix, connector, child_prefix, width, me) ==
    LET username == UserOf(comment)
        message == OrStr(Get(comment, "message", <<>>))
        deleted == Get(comment, "deleted", FALSE)
        edited == Get(comment, "edited", FALSE)
        ts == Timestamp(comment)
        marker_str == ParenStr(Markers(edited, deleted))
        reaction_str == ReactionStr(Reactions(Get(comment, "likes", 0), Get(comment, "dislikes", 0)))
        header == prefix \o connector \o HeaderHead(username, ts, me) \o marker_str \o reaction_str
        body_prefix == prefix \o child_prefix
        replies == RepliesOf(comment)
        sub == [i \in DOMAIN replies |->
                   LET b == Branch(i = Len(replies))
                   IN  _render_comment(replies[i], body_prefix, b.connector, b.child_prefix, width, me)]
    IN  JoinWith(<<header>> \o CommentBody(deleted, message, body_prefix, width) \o sub, <<NL>>)

\* The count phrase with the plural in every case.
CommentCount_plural(num_comments) ==
    <<SP>> \o cl_FGGRAY \o <<GLYPH_DOT, SP>> \o Str(num_comments) \o <<SP, "c", "o", "m", "m", "e", "n", "t", "s">> \o cl_ENDC

\* line 1599
CommentCount(num_comments) ==
    <<SP>> \o cl_FGGRAY \o <<GLYPH_DOT, SP>> \o Format(num_comments) \o <<SP, "c", "o", "m", "m", "e", "n", "t">>
    \o (IF num_comments # 1 THEN <<"s">> ELSE <<>>) \o cl_ENDC

\* The tags with the status in every case.
Tags_status(audience, status) ==
    (IF audience # <<>> THEN <<audience>> ELSE <<>>)
    \o (IF status # <<>> THEN <<status>> ELSE <<>>)

\* lines 1581-1585: the tags of a topic
Tags(audience, status) ==
    (IF TruthyStr(audience) THEN <<audience>> ELSE <<>>)
    \o (IF TruthyStr(status) /\ status # <<"a", "c", "t", "i", "v", "e">> THEN <<status>> ELSE <<>>)

\* s.replace(old, new, 1)
ReplaceFirst(s, old, new) ==
    LET at == {i \in 1..(Len(s) - Len(old) + 1) : SubSeq(s, i, i + Len(old) - 1) = old}
    IN  IF at = {} THEN s
        ELSE SubSeq(s, 1, Min(at) - 1) \o new \o SubSeq(s, Min(at) + Len(old), Len(s))

\* The cap put on every line of the topic.
Cap_every(all_lines) ==
    [k \in DOMAIN all_lines |->
        ReplaceFirst(all_lines[k], cl_BOLD \o <<GLYPH_RAIL>> \o cl_ENDC,
                     cl_BOLD \o <<GLYPH_CORNER>> \o cl_ENDC)]

\* lines 1628-1633: the cap on the last line of the topic
Cap(all_lines) ==
    [all_lines EXCEPT ![Len(all_lines)] =
        ReplaceFirst(@, cl_BOLD \o <<GLYPH_RAIL>> \o cl_ENDC, cl_BOLD \o <<GLYPH_CORNER>> \o cl_ENDC)]

\* The placeholder under a topic with comments as well.
NoComments_always(comments) ==
    << cl_BOLD \o <<GLYPH_CORNER>> \o cl_ENDC \o <<SP>> \o cl_FGGRAY \o <<"(", "n", "o", SP, "c", "o", "m", "m", "e", "n", "t", "s", ")">> \o cl_ENDC >>

\* lines 1625-1626
NoComments(comments) ==
    IF comments = <<>>
    THEN << cl_BOLD \o <<GLYPH_CORNER>> \o cl_ENDC \o <<SP>> \o cl_FGGRAY \o <<"(", "n", "o", SP, "c", "o", "m", "m", "e", "n", "t", "s", ")">> \o cl_ENDC >>
    ELSE <<>>

\* lines 1564-1634: the body of the loop over the topics
RenderTopic(topic, width, me) ==
    LET username == UserOf(topic)
        message == OrStr(Get(topic, "message", <<>>))
        ts == Timestamp(topic)
        tag_str == ParenStr(Tags(Get(topic, "audience", <<>>), Get(topic, "status", <<>>)))
        reaction_str == ReactionStr(Reactions(Get(topic, "likes", 0), Get(topic, "dislikes", 0)))
        edited_str == IF Get(topic, "edited", FALSE) THEN ParenStr(<< <<"e", "d", "i", "t", "e", "d">> >>) ELSE <<>>
        comment_count == CommentCount(Get(topic, "num_comments", 0))
        header == cl_BOLD \o <<GLYPH_TOP>> \o cl_ENDC \o <<SP>> \o HeaderHead(username, ts, me)
                  \o tag_str \o edited_str \o reaction_str \o comment_count
        body_prefix == cl_BOLD \o <<GLYPH_RAIL>> \o cl_ENDC \o <<SP>>
        body == IF message # <<>> THEN _wrap_text(message, body_prefix, width) ELSE <<>>
        comments == OrList(Get(topic, "comments", <<>>))
        sub == [i \in DOMAIN comments |->
                   LET b == Branch(i = Len(comments))
                   IN  _render_comment(comments[i], body_prefix, b.connector, b.child_prefix, width, me)]
        topic_text == JoinWith(<<header>> \o body \o sub \o NoComments(comments), <<NL>>)
    IN  JoinWith(Cap(str_split(topic_text)), <<NL>>)

\* The blocks joined with a single newline.
JoinTopics_dense(parts) == JoinWith(parts, <<NL>>)

\* line 1636: "\n\n".join(parts)
JoinTopics(parts) == JoinWith(parts, <<NL, NL>>)

\* render_topics without the test for an empty list.
render_topics_noguard(all_topics, me, columns) ==
    JoinTopics([i \in DOMAIN all_topics |-> RenderTopic(all_topics[i], _get_term_width(columns), me)])

\* render_topics(topics, me), in a terminal of the given number of columns
render_topics(all_topics, me, columns) ==
    IF all_topics = <<>> THEN cl_FGGRAY \o <<"N", "o", SP, "t", "o", "p", "i", "c", "s">> \o cl_ENDC
    ELSE LET width == _get_term_width(columns)
         IN  JoinTopics([i \in DOMAIN all_topics |-> RenderTopic(all_topics[i], width, me)])

(***************************************************************************)
(* The transport.  A response is the HTTP outcome and the decoded body:    *)
(* http_ok (raise_for_status passes), errors ("errors" is a key of the     *)
(* body) and items, the list data[vis_type] of the body (<<>> when data,   *)
(* or the key, is absent or the list is empty).                            *)
(***************************************************************************)
ItemLists == {<<>>} \cup {<<[topics |-> tl]>> : tl \in TopicLists}

Responses ==
    {[http_ok |-> FALSE, errors |-> FALSE, items |-> <<>>]}
    \cup {[http_ok |-> TRUE, errors |-> TRUE, items |-> it]
            : it \in {<<>>, <<[topics |-> <<>>]>>}}
    \cup {[http_ok |-> TRUE, errors |-> FALSE, items |-> it] : it \in ItemLists}

\* The value of last while no response has arrived.
NoResponse == [http_ok |-> TRUE, errors |-> FALSE, items |-> <<>>]

\* What a response is, from the transport's side.
Kind(r) ==
    IF ~r.http_ok THEN "http_error"
    ELSE IF r.errors THEN "gql_errors"
    ELSE IF r.items = <<>> THEN "not_found"
    ELSE IF \E i \in DOMAIN r.items[1].topics : Incomplete(r.items[1].topics[i].comments)
         THEN "truncated"
    ELSE "complete"

\* _query without the check of the errors list.
_query_unchecked(r) == IF ~r.http_ok THEN "HTTPError" ELSE ""

\* NovemGQL._query on a response: the exception raised ("" when none).
_query(r) ==
    IF ~r.http_ok THEN "HTTPError"
    ELSE IF r.errors THEN "GraphQL error"
    ELSE ""

(***************************************************************************)
(* fetch_topics_gql.                                                       *)
(***************************************************************************)
initial_depth == 3
max_depth == 12
depth_step == 3

\* all() where the code has any().
truncated_all(ts) == \A i \in DOMAIN ts : _has_truncated_replies(ts[i].comments)

\* line 1428: truncated = any(_has_truncated_replies(t.get("comments", [])) ...)
truncated(ts) == \E i \in DOMAIN ts : _has_truncated_replies(ts[i].comments)

\* depth += 1 where the code has depth += 3.
NextDepth_one(d) == d + 1

NextDepth(d) == d + depth_step

\* depth < max_depth where the code has depth <= max_depth.
LoopContinues_strict(d) == d < max_depth

LoopContinues(d) == d <= max_depth

\* break where the code has return [].
ReturnOnNoItems_break(ts) == ts

\* line 1424: return []
ReturnOnNoItems(ts) == <<>>

Idle == pc \in {"idle", "returned", "raised"}

\* The caller enters fetch_topics_gql (lines 1411-1417).
Call ==
    /\ Idle
    /\ calls < MaxCalls
    /\ \E vt \in FetchVisTypes : vis_type' = vt
    /\ pc' = "loop"
    /\ depth' = initial_depth
    /\ topics' = <<>>
    /\ sent' = <<>>
    /\ hist' = <<>>
    /\ result' = <<>>
    /\ exc' = ""
    /\ calls' = calls + 1
    /\ last' = NoResponse
    /\ UNCHANGED <<fn, arg, out>>

\* The loop test holds: the query is built and posted (lines 1419-1421, 75).
Send ==
    /\ pc = "loop"
    /\ LoopContinues(depth)
    /\ sent' = Append(sent, _build_topics_query(vis_type, depth))
    /\ pc' = "wait"
    /\ UNCHANGED <<vis_type, depth, topics, last, hist, result, exc, calls, fn, arg, out>>

\* The response arrives: the rest of _query and of the loop body
\* (lines 76-86, 1422-1431).
Deliver(r) ==
    /\ last' = r
    /\ hist' = Append(hist, Kind(r))
    /\ IF _query(r) # ""
       THEN /\ pc' = "raised"
            /\ exc' = _query(r)
            /\ UNCHANGED <<depth, topics, result>>
       ELSE IF r.items = <<>>
       THEN /\ pc' = "returned"
            /\ result' = ReturnOnNoItems(topics)
            /\ UNCHANGED <<depth, topics, exc>>
       ELSE /\ topics' = r.items[1].topics
            /\ IF ~truncated(topics')
               THEN /\ pc' = "returned"
                    /\ result' = topics'
                    /\ UNCHANGED depth
               ELSE /\ depth' = NextDepth(depth)
                    /\ pc' = "loop"
                    /\ UNCHANGED result
            /\ UNCHANGED exc
    /\ UNCHANGED <<vis_type, sent, calls, fn, arg, out>>

Receive ==
    /\ pc = "wait"
    /\ \E r \in Responses : Deliver(r)

\* The loop test fails: return topics (lines 1419, 1433).
Exhausted ==
    /\ pc = "loop"
    /\ ~LoopContinues(depth)
    /\ pc' = "returned"
    /\ result' = topics
    /\ UNCHANGED <<vis_type, depth, topics, sent, last, hist, exc, calls, fn, arg, out>>

Init ==
    /\ pc = "idle"
    /\ vis_type = "plots"
    /\ depth = 0
    /\ topics = <<>>
    /\ sent = <<>>
    /\ last = NoResponse
    /\ hist = <<>>
    /\ result = <<>>
    /\ exc = ""
    /\ calls = 0
    /\ fn = ""
    /\ arg = <<>>
    /\ out = <<>>

Next == Call \/ Send \/ Receive \/ Exhausted

Spec == Init /\ [][Next]_vars

\* The transport answers every request and the caller keeps running.
FairSpec == Init /\ [][Next]_vars /\ WF_vars(Send) /\ WF_vars(Receive) /\ WF_vars(Exhausted)

(***************************************************************************)
(* The caller of the two: the topics a call of fetch_topics_gql returned  *)
(* are handed to render_topics and the string is shown.                    *)
(***************************************************************************)
ShowColumns == {60, 200}

Show ==
    /\ pc = "returned"
    /\ pc' = "shown"
    /\ \E me \in {<<>>, <<"?">>}, columns \in ShowColumns :
          out' = <<render_topics(result, me, columns)>>
    /\ UNCHANGED <<vis_type, depth, topics, sent, last, hist, result, exc, calls, fn, arg>>

NextShow == Call \/ Send \/ Receive \/ Exhausted \/ Show

SpecShow == Init /\ [][NextShow]_vars

(***************************************************************************)
(* The helpers taken alone: the arguments are drawn in the initial state   *)
(* and one step applies the function.                                      *)
(***************************************************************************)
FetchIdle ==
    /\ pc = "idle"
    /\ vis_type = "plots"
    /\ depth = 0
    /\ topics = <<>>
    /\ sent = <<>>
    /\ last = NoResponse
    /\ hist = <<>>
    /\ result = <<>>
    /\ exc = ""
    /\ calls = 0

Apply(name, value) ==
    /\ fn = name
    /\ out = <<>>
    /\ out' = <<value>>
    /\ UNCHANGED <<pc, vis_type, depth, topics, sent, last, hist, result, exc, calls, fn, arg>>

InitTrunc == FetchIdle /\ fn = "_has_truncated_replies" /\ arg \in CommentForests /\ out = <<>>
ApplyTrunc == Apply("_has_truncated_replies", _has_truncated_replies(arg))
NextTrunc == ApplyTrunc
SpecTrunc == InitTrunc /\ [][NextTrunc]_vars

QueryArgs == [vis_type : VisTypes, depth : 0..MaxQueryDepth]
InitQuery == FetchIdle /\ fn = "_build_topics_query" /\ arg \in QueryArgs /\ out = <<>>
ApplyQuery == Apply("_build_topics_query", _build_topics_query(arg.vis_type, arg.depth))
NextQuery == ApplyQuery
SpecQuery == InitQuery /\ [][NextQuery]_vars

\* Strings of up to n characters over the alphabet A.
RECURSIVE StringsUpTo(_, _)
StringsUpTo(A, n) ==
    IF n = 0 THEN {<<>>}
    ELSE LET shorter == StringsUpTo(A, n - 1)
         IN  shorter \cup {Append(t, ch) : t \in shorter, ch \in A}

LenAlphabet == {ESC, "[", "1", "m", "a"}
\* One control sequence, or two side by side.
InsertStrings ==
    { <<ESC, "[", "m">>,
      <<ESC, "[", "1", ";", "1", "m">>,
      <<ESC, "[", "1", "m", ESC, "[", "m">> }

\* s with ins put behind its first p characters.
Insert(s, p, ins) == SubSeq(s, 1, p) \o ins \o SubSeq(s, p + 1, Len(s))

LenArgs ==
    {[s |-> s, p |-> p, ins |-> ins]
        : s \in StringsUpTo(LenAlphabet, MaxStrLen), p \in 0..MaxStrLen, ins \in InsertStrings}

InitLen == FetchIdle /\ fn = "_visible_len" /\ arg \in {a \in LenArgs : a.p <= Len(a.s)} /\ out = <<>>
ApplyLen ==
    Apply("_visible_len",
          [before |-> _visible_len(arg.s), after |-> _visible_len(Insert(arg.s, arg.p, arg.ins))])
NextLen == ApplyLen
SpecLen == InitLen /\ [][NextLen]_vars

\* The concatenations of up to n members of S.
RECURSIVE Repeats(_, _)
Repeats(S, n) ==
    IF n = 0 THEN {<<>>}
    ELSE Repeats(S, n - 1) \cup {t \o q : t \in Repeats(S, n - 1), q \in S}

\* Texts: up to MaxTokens pieces, each a word of 3, 11 or 21 letters, a
\* blank, a newline, a hyphen or a colour code.
Word(n) == [i \in 1..n |-> "a"]
TextTokens == {Word(3), Word(11), Word(21), <<SP>>, <<NL>>, <<"-">>, <<ESC, "[", "1", "m">>}

\* "|" stands for the box-drawing rail of the tree.
RAIL == <<"|", SP>>
BOLD_RAIL == <<ESC, "[", "1", "m", "|", ESC, "[", "0", "m", SP>>
WIDE_PREFIX == [i \in 1..12 |-> "x"]
WrapPrefixes == {RAIL, BOLD_RAIL, WIDE_PREFIX}
WrapWidths == {10, 24, 30}

WrapArgs == [text : Repeats(TextTokens, MaxTokens), prefix : WrapPrefixes, width : WrapWidths]

InitWrap == FetchIdle /\ fn = "_wrap_text" /\ arg \in WrapArgs /\ out = <<>>
ApplyWrap == Apply("_wrap_text", _wrap_text(arg.text, arg.prefix, arg.width))
NextWrap == ApplyWrap
SpecWrap == InitWrap /\ [][NextWrap]_vars

\* The topics given to render_topics: node i hangs under node p[i] < i, the
\* nodes under 0 are the topics and the others their comments and replies.
\* The nodes of mark carry the fields of profile, the others those the
\* tests' _make_topic and _make_comment give by default.
MINUTES_5 == [seconds |-> 300, year |-> 2025, month |-> 10, day |-> 1]
HOURS_3 == [seconds |-> 10800, year |-> 2025, month |-> 10, day |-> 1]
DAYS_400 == [seconds |-> 34560000, year |-> 2025, month |-> 10, day |-> 1]

DefaultProfile ==
    [message |-> <<"n", "i", "c", "e", SP, "p", "o", "s", "t">>, deleted |-> FALSE, edited |-> FALSE, likes |-> 0, dislikes |-> 0,
     created |-> <<MINUTES_5>>, audience |-> <<"p", "u", "b", "l", "i", "c">>, status |-> <<"a", "c", "t", "i", "v", "e">>, num_comments |-> 0]

SECRET == <<"s", "e", "c", "r", "e", "t">>

FlagProfiles ==
    {[DefaultProfile EXCEPT !.message = SECRET, !.deleted = d, !.edited = e,
                            !.likes = l, !.dislikes = k]
        : d \in BOOLEAN, e \in BOOLEAN, l \in {0, 5}, k \in {0, 2}}

MessageProfiles ==
    {[DefaultProfile EXCEPT !.message = m]
        : m \in {<<>>,
                 Word(11) \o <<SP>> \o Word(11) \o <<SP>> \o Word(11),
                 Word(3) \o <<NL, NL>> \o Word(3) \o <<NL>>}}

TopicProfiles ==
    {[DefaultProfile EXCEPT !.audience = a, !.status = st, !.num_comments = nc]
        : a \in {<<>>, <<"p", "u", "b", "l", "i", "c">>},
          st \in {<<>>, <<"a", "c", "t", "i", "v", "e">>, <<"a", "r", "c", "h", "i", "v", "e", "d">>},
          nc \in {0, 1, 2, 11}}

CreatedProfiles == {[DefaultProfile EXCEPT !.created = cr] : cr \in {<<>>, <<HOURS_3>>, <<DAYS_400>>}}

\* The profiles the larger trees are drawn with.
TreeProfiles ==
    {pr \in FlagProfiles : pr.deleted /\ (pr.edited <=> pr.likes # 0) /\ pr.dislikes = 0}
    \cup MessageProfiles

UserName(i) == <<"u">> \o Str(i)

\* The nodes marked: one of them, or all.
Marks(n) == {{i} : i \in 1..n} \cup {1..n}

RenderArgs ==
    UNION {[n : {n}, p : Parents(n), mark : Marks(n), profile : TreeProfiles,
            columns : {200}, me : {<<>>}]
             : n \in 0..MaxRenderNodes}
    \cup
    UNION {[n : {n}, p : Parents(n), mark : Marks(n),
            profile : FlagProfiles \cup MessageProfiles \cup TopicProfiles \cup CreatedProfiles,
            columns : {30, 200}, me : {<<>>, UserName(2)}]
             : n \in 1..2}

Fields(a, i) == IF i \in a.mark THEN a.profile ELSE DefaultProfile

\* What a field holds when it is empty and when it is null.
EmptyOf(field) ==
    CASE field = "creator" -> EmptyObject
      [] field \in {"num_comments", "likes", "dislikes"} -> 0
      [] OTHER -> <<>>
NullOf(field) ==
    CASE field = "creator" -> NullObject
      [] field \in {"num_comments", "likes", "dislikes"} -> NullInt
      [] field \in {"comments", "replies"} -> NullList
      [] field = "created" -> <<>>
      [] OTHER -> NullStr

\* The object d with one field absent, empty or null; "*" is every field,
\* absent.
Sparsify(d, field, how) ==
    IF field = "*" THEN EmptyObject
    ELSE IF field \notin DOMAIN d THEN d
    ELSE IF how = "absent" THEN [k \in DOMAIN d \ {field} |-> d[k]]
    ELSE IF how = "empty" THEN [d EXCEPT ![field] = EmptyOf(field)]
    ELSE [d EXCEPT ![field] = NullOf(field)]

\* The object of node i as the argument has it.
Shaped(a, i, d) == IF "field" \in DOMAIN a /\ i \in a.mark THEN Sparsify(d, a.field, a.how) ELSE d

RECURSIVE _make_comments(_, _)
_make_comments(a, par) ==
    LET cs == Ascending({i \in 1..a.n : a.p[i] = par})
    IN  [k \in 1..Len(cs) |->
            LET f == Fields(a, cs[k])
                replies == _make_comments(a, cs[k])
            IN  Shaped(a, cs[k],
                    [comment_id |-> cs[k], message |-> f.message, deleted |-> f.deleted,
                     edited |-> f.edited, num_replies |-> Len(replies), likes |-> f.likes,
                     dislikes |-> f.dislikes, created |-> f.created,
                     creator |-> [username |-> UserName(cs[k])], replies |-> replies])]

_make_topics(a) ==
    LET ts == Ascending({i \in 1..a.n : a.p[i] = 0})
    IN  [k \in 1..Len(ts) |->
            LET f == Fields(a, ts[k])
            IN  Shaped(a, ts[k],
                    [topic_id |-> ts[k], message |-> f.message, audience |-> f.audience,
                     status |-> f.status, num_comments |-> f.num_comments, likes |-> f.likes,
                     dislikes |-> f.dislikes, edited |-> f.edited, created |-> f.created,
                     creator |-> [username |-> UserName(ts[k])],
                     comments |-> _make_comments(a, ts[k])])]

InitRender == FetchIdle /\ fn = "render_topics" /\ arg \in RenderArgs /\ out = <<>>
\* The call returns the string, or raises what its expressions raised.
ApplyRender ==
    LET r == render_topics(_make_topics(arg), arg.me, arg.columns)
    IN  /\ fn = "render_topics"
        /\ out = <<>>
        /\ exc = ""
        /\ IF Raised(r) THEN exc' = AttributeError /\ out' = out
           ELSE out' = <<r>> /\ exc' = exc
        /\ UNCHANGED <<pc, vis_type, depth, topics, sent, last, hist, result, calls, fn, arg>>
NextRender == ApplyRender
SpecRender == InitRender /\ [][NextRender]_vars

\* The same call on topics and comments with a field absent, empty or null.
MaxSparseNodes == 3
RichProfile ==
    [DefaultProfile EXCEPT !.likes = 5, !.dislikes = 2, !.num_comments = 2,
                           !.status = <<"a", "r", "c", "h", "i", "v", "e", "d">>]
SparseFields ==
    {"creator", "message", "audience", "status", "num_comments", "likes", "dislikes",
     "created", "comments", "replies"}
SparseArgs ==
    UNION {[n : {n}, p : Parents(n), mark : Marks(n), profile : {RichProfile},
            field : SparseFields, how : {"absent", "empty", "null"},
            columns : {200}, me : {<<>>}]
           \cup [n : {n}, p : Parents(n), mark : Marks(n), profile : {RichProfile},
                 field : {"*"}, how : {"absent"}, columns : {200}, me : {<<>>}]
             : n \in 1..MaxSparseNodes}

InitSparse == FetchIdle /\ fn = "render_topics" /\ arg \in SparseArgs /\ out = <<>>
SpecSparse == InitSparse /\ [][NextRender]_vars

\* The same call for every caller: nobody, an author of the tree, somebody
\* else.
MaxMeNodes == 3
MeValues == {<<>>, UserName(1), UserName(2), UserName(9)}
MeArgs ==
    UNION {[n : {n}, p : Parents(n), mark : {1..n}, profile : {DefaultProfile, RichProfile},
            columns : {30, 200}, me : MeValues]
             : n \in 1..MaxMeNodes}
InitMe == FetchIdle /\ fn = "render_topics" /\ arg \in MeArgs /\ out = <<>>
SpecMe == InitMe /\ [][NextRender]_vars

\* _relative_time on ages around every multiple of a unit that bounds a
\* range, the timestamp of the future included, and on dates with days and
\* years of every width.
TimeUnits == {1, 60, 3600, 86400}
TimeCounts == {0, 1, 2, 23, 24, 29, 30, 59, 60, 400}
TimeArgs ==
    [seconds : {n * u + r : n \in TimeCounts, u \in TimeUnits, r \in {-1, 0, 1}},
     year : {1999, 2024}, month : {1, 12}, day : {5, 15}]
InitTime == FetchIdle /\ fn = "_relative_time" /\ arg \in TimeArgs /\ out = <<>>
ApplyTime == Apply("_relative_time", _relative_time(arg))
NextTime == ApplyTime
SpecTime == InitTime /\ [][NextTime]_vars

(***************************************************************************)
(* novem/table/utils/format.py: merge_from_index.  An index is held as its *)
(* levels, each the sequence of the labels of the rows; src is a           *)
(* DataFrame with its index and the number of levels of its columns, an    *)
(* Index (a MultiIndex is one), or something else.                         *)
(***************************************************************************)

\* current_label = None
NoLabel == "None"

\* f"{start}:{end} {level} lbl{k}"
Instruction(start, end, level, k) ==
    Str(start) \o <<":">> \o Str(end) \o <<SP>> \o Str(level) \o <<SP, "l", "b", "l">> \o Str(k)

\* The scan that also merges a single row.
RECURSIVE ScanLevel_single(_, _, _, _, _, _, _)
ScanLevel_single(values, row, current_label, start_row, merge_instructions, aio, level) ==
    IF row = Len(values)
    THEN IF start_row <= row - 1
         THEN Append(merge_instructions,
                     Instruction(start_row + aio, (row - 1) + aio, level, Len(merge_instructions) + 1))
         ELSE merge_instructions
    ELSE LET label == values[row + 1]
         IN  IF label = current_label
             THEN ScanLevel_single(values, row + 1, current_label, start_row, merge_instructions, aio, level)
             ELSE ScanLevel_single(values, row + 1, label, row,
                            IF current_label # NoLabel /\ start_row <= row - 1
                            THEN Append(merge_instructions,
                                        Instruction(start_row + aio, row + aio - 1, level,
                                                    Len(merge_instructions) + 1))
                            ELSE merge_instructions,
                            aio, level)
\* The loop over the rows of one level, from row on (rows count from 0),
\* and the statement behind it, where row is the last row.
RECURSIVE ScanLevel(_, _, _, _, _, _, _)
ScanLevel(values, row, current_label, start_row, merge_instructions, aio, level) ==
    IF row = Len(values)
    THEN IF start_row < row - 1
         THEN Append(merge_instructions,
                     Instruction(start_row + aio, (row - 1) + aio, level, Len(merge_instructions) + 1))
         ELSE merge_instructions
    ELSE LET label == values[row + 1]
         IN  IF label = current_label
             THEN ScanLevel(values, row + 1, current_label, start_row, merge_instructions, aio, level)
             ELSE ScanLevel(values, row + 1, label, row,
                            IF current_label # NoLabel /\ start_row < row - 1
                            THEN Append(merge_instructions,
                                        Instruction(start_row + aio, row + aio - 1, level,
                                                    Len(merge_instructions) + 1))
                            ELSE merge_instructions,
                            aio, level)

\* for level in range(index.nlevels), from level on
RECURSIVE ScanLevels(_, _, _, _)
ScanLevels(index, level, merge_instructions, aio) ==
    IF level = Len(index) THEN merge_instructions
    ELSE ScanLevels(index, level + 1,
                    ScanLevel(index[level + 1], 0, NoLabel, 0, merge_instructions, aio, level), aio)

\* merge_from_index(src, io): what it raises, or the string it returns.
\* io is NullInt when it is not given.
merge_from_index(src, io) ==
    IF src.kind \notin {"DataFrame", "Index"} THEN [raised |-> "TypeError", value |-> <<>>]
    ELSE LET index == src.index
             aio == IF io # NullInt THEN io
                    ELSE IF src.kind = "DataFrame" THEN src.columns_nlevels ELSE 1
         IN  IF Len(index[1]) = 0 THEN [raised |-> "", value |-> <<>>]
             ELSE [raised |-> "", value |-> JoinWith(ScanLevels(index, 0, <<>>, aio), <<NL>>)]

\* merge_from_index on every index of one or two levels over two labels.
MaxRows == 4
IndexLabels == {"A", "B"}
Indexes ==
    UNION {[1..nlevels -> [1..rows -> IndexLabels]] : nlevels \in 1..2, rows \in 0..MaxRows}
MergeArgs ==
    [src : [kind : {"DataFrame"}, index : Indexes, columns_nlevels : {1, 2}]
              \cup [kind : {"Index"}, index : Indexes, columns_nlevels : {0}]
              \cup [kind : {"list"}, index : {<<<<>>>>}, columns_nlevels : {0}],
     io : {NullInt, 0, 3}]
InitMerge == FetchIdle /\ fn = "merge_from_index" /\ arg \in MergeArgs /\ out = <<>>
ApplyMerge ==
    LET r == merge_from_index(arg.src, arg.io)
    IN  /\ fn = "merge_from_index" /\ out = <<>> /\ exc = ""
        /\ IF r.raised # "" THEN exc' = r.raised /\ out' = out
           ELSE out' = <<r.value>> /\ exc' = exc
        /\ UNCHANGED <<pc, vis_type, depth, topics, sent, last, hist, result, calls, fn, arg>>
NextMerge == ApplyMerge
SpecMerge == InitMerge /\ [][NextMerge]_vars

(***************************************************************************)
(* _aggregate_activity.                                                    *)
(***************************************************************************)

\* sum(values)
RECURSIVE Sum(_)
Sum(values) == IF values = <<>> THEN 0 ELSE Head(values) + Sum(Tail(values))

\* _aggregate_activity(item)
_aggregate_activity(item) ==
    LET all_topics == OrList(Get(item, "topics", <<>>))
    IN  [_comments |-> Sum([k \in DOMAIN all_topics |-> Get(all_topics[k], "num_comments", 0)]),
         _likes |-> Sum([k \in DOMAIN all_topics |-> Get(all_topics[k], "num_likes", 0)]),
         _dislikes |-> Sum([k \in DOMAIN all_topics |-> Get(all_topics[k], "num_dislikes", 0)])]

\* The items: without topics, with the null, and with up to MaxTopics
\* topics that hold their counts as the tests write them (likes, dislikes)
\* or as the list queries select them (num_likes, num_dislikes).
MaxTopics == 2
Counts == {0, 1, 3}
ActivityTopics ==
    [num_comments : {0, 5}, likes : Counts, dislikes : Counts]
    \cup [num_comments : {0, 5}, num_likes : Counts, num_dislikes : Counts]
ActivityArgs(most) ==
    {EmptyObject, [topics |-> NullList]}
    \cup {[topics |-> ts] : ts \in UNION {[1..n -> ActivityTopics] : n \in 0..most}}
InitActivity == FetchIdle /\ fn = "_aggregate_activity" /\ arg \in ActivityArgs(MaxTopics) /\ out = <<>>
ApplyActivity == Apply("_aggregate_activity", _aggregate_activity(arg))
NextActivity == ApplyActivity
SpecActivity == InitActivity /\ [][NextActivity]_vars

(***************************************************************************)
(* fetch_topics_gql against a backend that holds a tree of comments and    *)
(* answers every query with all of it that the query selects: the replies  *)
(* down to the level the "replies" selections of the query nest to, the    *)
(* comments of that level without the "replies" key, every num_replies     *)
(* the number of the comment's replies.  arg holds the backend's topics.   *)
(***************************************************************************)

\* A thread of one comment per level, down to d levels below its root.
RECURSIVE Chain(_)
Chain(d) ==
    IF d = 0 THEN [num_replies |-> 0, replies |-> <<>>]
    ELSE [num_replies |-> 1, replies |-> <<Chain(d - 1)>>]

\* The same with a reply without replies next to the thread.
Bush(d) ==
    IF d = 0 THEN Chain(0)
    ELSE [num_replies |-> 2, replies |-> <<Chain(0), Chain(d - 1)>>]

MaxDeep == 13
RealTopicLists ==
    {<<[comments |-> <<>>]>>}
    \cup {<<[comments |-> <<Chain(d)>>]>> : d \in 0..MaxDeep}
    \cup {<<[comments |-> <<Bush(d)>>]>> : d \in 1..MaxDeep}
    \cup {<<[comments |-> <<Chain(e)>>], [comments |-> <<Chain(0), Chain(d)>>]>>
             : d \in 0..MaxDeep, e \in {0, 4}}

\* The comments with the replies below level d left out.
RECURSIVE CutBelow(_, _)
CutBelow(comments, d) ==
    [k \in DOMAIN comments |->
        IF d = 0 THEN [num_replies |-> comments[k].num_replies]
        ELSE [num_replies |-> comments[k].num_replies,
              replies |-> CutBelow(comments[k].replies, d - 1)]]

\* The answer of the backend to the query q.
Backend(real, q) ==
    [http_ok |-> TRUE, errors |-> FALSE,
     items |-> <<[topics |-> [t \in DOMAIN real |->
                                [comments |-> CutBelow(real[t].comments, ReplyNesting(q))]]]>>]

ReceiveFaithful ==
    /\ pc = "wait"
    /\ Deliver(Backend(arg, sent[Len(sent)]))

InitFaithful == FetchIdle /\ fn = "backend" /\ arg \in RealTopicLists /\ out = <<>>
NextFaithful == Call \/ Send \/ ReceiveFaithful \/ Exhausted
SpecFaithful == InitFaithful /\ [][NextFaithful]_vars

\* The same call on every tree of topics and comments with one comment, or
\* all, deleted or without a message.
MaxTreeNodes == 4
TreeArgs ==
    UNION {[n : {n}, p : Parents(n), mark : Marks(n),
            profile : {[DefaultProfile EXCEPT !.deleted = TRUE, !.message = SECRET],
                       [DefaultProfile EXCEPT !.message = <<>>]},
            columns : {200}, me : {<<>>}]
             : n \in 1..MaxTreeNodes}
InitTree == FetchIdle /\ fn = "render_topics" /\ arg \in TreeArgs /\ out = <<>>
SpecTree == InitTree /\ [][NextRender]_vars

(***************************************************************************)
(* _transform_orgs_response.  The body of the ListOrgs query: under "me"   *)
(* one list of groups for each role of the caller.                         *)
(***************************************************************************)

\* The roles in the order of the lowest first.
role_priority_lowest == <<"member", "superuser", "admin", "founder">>

\* line 583
role_priority == <<"founder", "admin", "superuser", "member">>

\* line 605
vis_types == <<"plots", "grids", "mails", "docs", "repos", "jobs">>

\* x or {}
OrObject(x) == IF x = NullObject THEN EmptyObject ELSE x

\* lines 609-617: the keys author/id of the visualisations of one kind in
\* the groups of an org.
VisKeys(org_groups, vt) ==
    UNION {LET all_vis == OrList(Get(org_groups[g], vt, <<>>))
           IN  {Get(OrObject(Get(all_vis[v], "author", EmptyObject)), "username", "")
                   \o "/" \o Get(all_vis[v], "id", "")
                  : v \in {w \in DOMAIN all_vis :
                             /\ Get(all_vis[w], "id", "") # ""
                             /\ Get(OrObject(Get(all_vis[w], "author", EmptyObject)), "username", "") # ""}}
             : g \in DOMAIN org_groups}

\* lines 596-635: the entry of an org; an absent flag is False.
Transformed(group, role) ==
    LET org_groups == OrList(Get(group, "groups", <<>>))
    IN  [id |-> Get(group, "id", ""),
         name |-> OrStr(Get(group, "name", <<>>)),
         role |-> role,
         public |-> Get(group, "public", FALSE),
         is_open |-> Get(group, "is_open", FALSE),
         enable_subdomain |-> Get(group, "enable_subdomain", FALSE),
         groups_count |-> Len(org_groups),
         members_count |-> Len(OrList(Get(group, "founders", <<>>)))
                             + Len(OrList(Get(group, "admins", <<>>)))
                             + Len(OrList(Get(group, "superusers", <<>>)))
                             + Len(OrList(Get(group, "members", <<>>))),
         plots |-> Cardinality(VisKeys(org_groups, "plots")),
         grids |-> Cardinality(VisKeys(org_groups, "grids")),
         mails |-> Cardinality(VisKeys(org_groups, "mails")),
         docs |-> Cardinality(VisKeys(org_groups, "docs")),
         repos |-> Cardinality(VisKeys(org_groups, "repos")),
         jobs |-> Cardinality(VisKeys(org_groups, "jobs")),
         created |-> OrStr(Get(group, "created", <<>>))]

\* lines 587-636: the loop over the groups of one role, from the i-th on.
RECURSIVE GroupsLoop(_, _, _, _)
GroupsLoop(groups, i, role, acc) ==
    IF i > Len(groups) THEN acc
    ELSE LET group == groups[i]
         IN  IF Get(group, "type", "") # "org" THEN GroupsLoop(groups, i + 1, role, acc)
             ELSE IF Get(group, "id", "") \in acc.seen_ids THEN GroupsLoop(groups, i + 1, role, acc)
             ELSE GroupsLoop(groups, i + 1, role,
                             [seen_ids |-> acc.seen_ids \cup {Get(group, "id", "")},
                              result |-> Append(acc.result, Transformed(group, role))])

\* lines 585-586: the loop over the roles, from the r-th of the order on.
RECURSIVE RolesLoop(_, _, _, _)
RolesLoop(me_data, order, r, acc) ==
    IF r > Len(order) THEN acc
    ELSE RolesLoop(me_data, order, r + 1,
                   GroupsLoop(OrList(Get(me_data, order[r], <<>>)), 1, order[r], acc))

\* _transform_orgs_response(data)
_transform_orgs_response(data) ==
    RolesLoop(OrObject(Get(data, "me", EmptyObject)), role_priority, 1,
              [seen_ids |-> {}, result |-> <<>>]).result

\* The groups the query returns: the org "a" with members, subgroups and
\* visualisations (one listed twice, one under two authors, one without
\* author), the org "b" with nulls, and groups of the same ids that are no
\* orgs.
Vis(id, username) == [id |-> id, author |-> [username |-> username]]
GroupOf(id, type) ==
    IF id = "a"
    THEN [id |-> id, type |-> type, name |-> <<"A">>, public |-> TRUE, is_open |-> FALSE,
          enable_subdomain |-> TRUE,
          groups |-> <<[id |-> "g1",
                        plots |-> <<Vis("p1", "u1"), Vis("p1", "u1"), Vis("p1", "u2"),
                                    [id |-> "p2", author |-> NullObject]>>,
                        grids |-> NullList, mails |-> <<>>, docs |-> <<Vis("d1", "u1")>>,
                        repos |-> <<>>, jobs |-> <<>>],
                       [id |-> "g2", plots |-> <<Vis("p1", "u1"), Vis("p3", "u1")>>]>>,
          founders |-> <<[username |-> "u1"]>>, admins |-> <<>>, superusers |-> NullList,
          members |-> <<[username |-> "u2"], [username |-> "u3"]>>,
          created |-> <<"2", "0", "2", "5">>]
    ELSE [id |-> id, type |-> type, name |-> NullStr, groups |-> NullList, created |-> NullStr]

\* The body with the groups of the entries under their roles; a role
\* without groups has an empty list, a null or no key.
MaxEntries == 3
OrgEntries == [role : {"founder", "admin", "superuser", "member"}, id : {"a", "b"}, type : {"org", "org_group"}]
RoleList(es, role) ==
    LET ks == Ascending({k \in DOMAIN es : es[k].role = role})
    IN  [j \in DOMAIN ks |-> GroupOf(es[ks[j]].id, es[ks[j]].type)]
DataOf(es, bare) ==
    LET used == {es[k].role : k \in DOMAIN es}
        all == {"founder", "admin", "superuser", "member"}
    IN  [me |-> [role \in (IF bare = "absent" THEN used ELSE all) |->
                    IF role \in used THEN RoleList(es, role)
                    ELSE IF bare = "null" THEN NullList ELSE <<>>]]
OrgsArgs(entries) ==
    {EmptyObject, [me |-> NullObject]}
    \cup {DataOf(es, "empty") : es \in UNION {[1..n -> OrgEntries] : n \in 0..entries}}
    \cup {DataOf(es, bare) : es \in UNION {[1..n -> OrgEntries] : n \in 0..1}, bare \in {"absent", "null"}}
InitOrgs == FetchIdle /\ fn = "_transform_orgs_response" /\ arg \in OrgsArgs(MaxEntries) /\ out = <<>>
ApplyOrgs == Apply("_transform_orgs_response", _transform_orgs_response(arg))
NextOrgs == ApplyOrgs
SpecOrgs == InitOrgs /\ [][NextOrgs]_vars

(***************************************************************************)
(* Properties of fetch_topics_gql (Spec, FairSpec).                        *)
(***************************************************************************)
\* The reply depth each posted query asks for, read from the query itself.
SentDepths == [i \in DOMAIN sent |-> ReplyNesting(sent[i])]

LastTopics == last.items[1].topics

\* C1: the call stops at the first response without a truncated comment: it
\* returns that response's topics and posts nothing after it; a transport
\* truncated at depths 3 and 6 and complete at 9 gets exactly the requests
\* 3, 6, 9.
C1_StopsAtFirstComplete ==
    /\ \A i \in DOMAIN hist :
          hist[i] = "complete" =>
             /\ i = Len(hist)
             /\ Len(sent) = i
             /\ pc = "returned"
             /\ result = LastTopics
             /\ \A j \in 1..(i - 1) : hist[j] = "truncated"
    /\ hist = <<"truncated", "truncated", "complete">> => SentDepths = <<3, 6, 9>>

C1_Witness ==
    /\ hist = <<"truncated", "truncated", "complete">>
    /\ pc = "returned"
    /\ result # <<>>
    /\ Len(sent) = 3

AllTruncated == hist # <<>> /\ \A i \in DOMAIN hist : hist[i] = "truncated"

\* C2: when every response is truncated the call posts exactly the requests
\* 3, 6, 9, 12, returns the topics of the depth-12 response and raises nothing.
C2_PersistentTruncation ==
    AllTruncated =>
       /\ pc # "raised"
       /\ exc = ""
       /\ pc = "returned" =>
            /\ SentDepths = <<3, 6, 9, 12>>
            /\ Len(hist) = 4
            /\ result = LastTopics
       /\ Len(hist) = 4 /\ pc = "loop" => ~LoopContinues(depth)

C2_Witness ==
    /\ hist = <<"truncated", "truncated", "truncated", "truncated">>
    /\ pc = "returned"
    /\ result = LastTopics
    /\ result # <<>>

\* C3 (state part): at most 4 requests, at depths 3, 6, 9, 12 in that order,
\* at most one of them unanswered, and only while the caller waits for it;
\* a call that has posted nothing is at depth 3.
C3_Sequential ==
    /\ Len(sent) <= 4
    /\ \A i \in DOMAIN sent : SentDepths[i] = 3 * i
    /\ Len(sent) - Len(hist) = (IF pc = "wait" THEN 1 ELSE 0)
    /\ pc = "loop" /\ sent = <<>> => depth = 3

\* C3: every call of fetch_topics_gql ends (returns or raises) after at most
\* 4 requests, posted one after another at depths 3, 6, 9, 12; every call
\* starts again at depth 3.
C3_BoundedSequential ==
    /\ []C3_Sequential
    /\ (pc \in {"loop", "wait"}) ~> (pc \in {"returned", "raised"})

C3_Witness ==
    /\ calls = 2
    /\ Len(sent) = 4
    /\ pc = "returned"
    /\ SentDepths = <<3, 6, 9, 12>>

\* C4: a response without an entry for the resource, on the first or on a
\* later request, ends the call at once with the empty topic list: no
\* further request, no error.
C4_NotFoundReturnsEmpty ==
    \A i \in DOMAIN hist :
       hist[i] = "not_found" =>
          /\ i = Len(hist)
          /\ Len(sent) = i
          /\ pc = "returned"
          /\ result = <<>>
          /\ exc = ""

C4_Witness ==
    /\ hist = <<"truncated", "not_found">>
    /\ pc = "returned"
    /\ topics # <<>>
    /\ result = <<>>

\* C5: a transport failure (HTTP error, or a body with an errors list) at any
\* iteration leaves the call as an exception: nothing is returned, nothing
\* more is posted; no depth is posted twice and only a truncated response is
\* followed by another request.
C5_FailurePropagates ==
    /\ \A i \in DOMAIN hist :
          hist[i] \in {"http_error", "gql_errors"} =>
             /\ i = Len(hist)
             /\ Len(sent) = i
             /\ pc = "raised"
             /\ exc = (IF hist[i] = "http_error" THEN "HTTPError" ELSE "GraphQL error")
             /\ result = <<>>
    /\ pc = "raised" => hist # <<>> /\ hist[Len(hist)] \in {"http_error", "gql_errors"}
    /\ \A i, j \in DOMAIN sent : i < j => SentDepths[i] < SentDepths[j]
    /\ \A i \in DOMAIN hist : i < Len(sent) => hist[i] = "truncated"

C5_Witness ==
    /\ hist = <<"truncated", "gql_errors">>
    /\ pc = "raised"
    /\ last.items # <<>>
    /\ topics # <<>>

(***************************************************************************)
(* Properties of _has_truncated_replies (SpecTrunc).                       *)
(***************************************************************************)
TruncApplied == fn = "_has_truncated_replies" /\ out # <<>>

\* C6: _has_truncated_replies(comments) is true exactly when some comment,
\* at any depth of the forest, declares a reply count above zero and has no
\* materialized reply.
C6_TruncatedIffEmptyDeclared ==
    TruncApplied => (out[1] <=> \E c \in AllComments(arg) : IsTruncatedComment(c))

\* A grandchild declaring 3 replies with no "replies" key, under ancestors
\* that are complete themselves.
C6_Witness ==
    /\ TruncApplied
    /\ arg = << [num_replies |-> 1, replies |->
                  << [num_replies |-> 1, replies |->
                       << [num_replies |-> 3] >>] >>] >>
    /\ out = <<TRUE>>

DeclaresMore(c) == c.num_replies > Len(GetReplies(c))
CountsMatch(c) == c.num_replies = Len(GetReplies(c))

QueryApplied == fn = "_build_topics_query" /\ out # <<>>

Resource(vt) == vt \o "(id: $id, author: $author) {"

\* C8: the query for kind k and depth d selects k(id: $id, author: $author),
\* then topics, then comments, and puts the comment fields at every one of
\* the levels 0..d of "replies" selections, d levels in all; building it
\* posts nothing.
C8_QueryNesting ==
    QueryApplied =>
       LET q == out[1]
           k == arg.vis_type
           d == arg.depth
           top == Min(LinesOf(q, "comments {"))
       IN  /\ Count(q, Resource(k)) = 1
           /\ Count(q, "topics {") = 1
           /\ Count(q, "comments {") = 1
           /\ Min(LinesOf(q, Resource(k))) < Min(LinesOf(q, "topics {"))
           /\ Min(LinesOf(q, "topics {")) < top
           /\ \A i \in LinesOf(q, "replies {") \cup LinesOf(q, _COMMENT_FIELDS) : i > top
           /\ Count(q, "replies {") = d
           /\ ReplyNesting(q) = d
           /\ {ReplyLevel(q, i) : i \in LinesOf(q, "replies {")} = 1..d
           /\ {ReplyLevel(q, i) : i \in LinesOf(q, _COMMENT_FIELDS)} = 0..d
           /\ Count(q, _COMMENT_FIELDS) = d + 1
           /\ BraceDepth(q, Len(q)) = 0
           /\ \A i \in 1..(Len(q) - 1) : BraceDepth(q, i) > 0
           /\ FetchIdle

C8_Witness ==
    /\ QueryApplied
    /\ arg = [vis_type |-> "grids", depth |-> 3]
    /\ Count(out[1], "replies {") = 3
    /\ Count(out[1], "grids(id: $id, author: $author) {") = 1

(***************************************************************************)
(* Properties of _visible_len (SpecLen).                                   *)
(***************************************************************************)
LenApplied == fn = "_visible_len" /\ out # <<>>

\* s[i..e] is a colour control sequence: ESC, '[', digits or semicolons, 'm'.
IsSgr(s, i, e) ==
    /\ i + 2 <= e
    /\ e <= Len(s)
    /\ s[i] = ESC
    /\ s[i + 1] = "["
    /\ s[e] = "m"
    /\ \A k \in (i + 2)..(e - 1) : s[k] \in SgrClass

InSgr(s, j) == \E i \in 1..j, e \in j..Len(s) : IsSgr(s, i, e)
VisibleCount(s) == Cardinality({j \in DOMAIN s : ~InSgr(s, j)})

\* p cuts a control sequence of s in two.
SplitsSgr(s, p) == p >= 1 /\ p < Len(s) /\ \E i \in 1..p, e \in (p + 1)..Len(s) : IsSgr(s, i, e)

\* C9 as stated: the width is the number of characters outside the control
\* sequences, and control sequences inserted at any position of the string
\* leave it unchanged.
C9_Original ==
    LenApplied =>
       /\ out[1].before = VisibleCount(arg.s)
       /\ out[1].after = out[1].before

\* C9 as amended: the width is the number of characters outside the control
\* sequences (the plain length when there is none), and control sequences
\* inserted at a position that does not cut an existing control sequence in
\* two (next to one included) leave it unchanged.
C9_WidthIgnoresSequences ==
    LenApplied =>
       /\ out[1].before = VisibleCount(arg.s)
       /\ out[1].after = VisibleCount(Insert(arg.s, arg.p, arg.ins))
       /\ (\A j \in DOMAIN arg.s : ~InSgr(arg.s, j)) => out[1].before = Len(arg.s)
       /\ ~SplitsSgr(arg.s, arg.p) => out[1].after = out[1].before

\* Two sequences inserted right behind an existing one.
C9_Witness ==
    /\ LenApplied
    /\ arg.s = <<ESC, "[", "m">>
    /\ arg.p = 3
    /\ arg.ins = <<ESC, "[", "1", "m", ESC, "[", "m">>
    /\ out[1] = [before |-> 0, after |-> 0]

(***************************************************************************)
(* Properties of _wrap_text (SpecWrap).                                    *)
(***************************************************************************)
WrapApplied == fn = "_wrap_text" /\ out # <<>>

StartsWith(line, prefix) == Len(line) >= Len(prefix) /\ SubSeq(line, 1, Len(prefix)) = prefix
Behind(line, prefix) == SubSeq(line, Len(prefix) + 1, Len(line))

Usable(prefix, w) == Max({w - VisibleCount(prefix), 20})

\* C10: every line of _wrap_text(text, prefix, w) starts with the prefix as
\* given and, behind it, is at most max(w - visibleWidth(prefix), 20) visible
\* characters wide; a word of up to 20 characters is left on one line even
\* when the prefix is wider than w.
C10_LinesWithinWidth ==
    WrapApplied =>
       /\ \A k \in DOMAIN out[1] :
             /\ StartsWith(out[1][k], arg.prefix)
             /\ VisibleCount(Behind(out[1][k], arg.prefix)) <= Usable(arg.prefix, arg.width)
       /\ arg.text \in {Word(3), Word(11)} => out[1] = <<arg.prefix \o arg.text>>

\* A prefix wider than the target width: the text is cut at 20 columns.
C10_Witness ==
    /\ WrapApplied
    /\ arg.prefix = WIDE_PREFIX
    /\ arg.width = 10
    /\ arg.text = Word(11) \o <<SP>> \o Word(11)
    /\ out[1] = <<WIDE_PREFIX \o Word(11), WIDE_PREFIX \o Word(11)>>

\* The words of s: the maximal runs of characters other than blanks and
\* newlines.
IsSpace(c) == c \in {SP, NL}
Words(s) ==
    LET starts == Ascending({i \in DOMAIN s : ~IsSpace(s[i]) /\ (i = 1 \/ IsSpace(s[i - 1]))})
        stops == Ascending({i \in DOMAIN s : ~IsSpace(s[i]) /\ (i = Len(s) \/ IsSpace(s[i + 1]))})
    IN  [k \in 1..Len(starts) |-> SubSeq(s, starts[k], stops[k])]

\* The words of the output lines, in order, read behind the prefix.
RECURSIVE LineWords(_, _)
LineWords(lines, prefix) ==
    IF lines = <<>> THEN <<>>
    ELSE Words(Behind(Head(lines), prefix)) \o LineWords(Tail(lines), prefix)

\* The offsets, in the text without its blanks, at which a word ends.
Ends(ws) == {SumLen(ws, j) : j \in 1..(Len(ws) - 1)}

\* The word of ws that the offset b lies inside of.
WordAt(ws, b) == ws[Min({i \in DOMAIN ws : b < SumLen(ws, i)})]

\* C11 as stated: no word of the text is split across output lines, and a
\* word longer than the usable width stands whole on a line of its own.
C11_Original ==
    WrapApplied =>
       LET tw == Words(arg.text)
       IN  /\ LineWords(out[1], arg.prefix) = tw
           /\ \A i \in DOMAIN tw :
                 Len(tw[i]) > Usable(arg.prefix, arg.width)
                    => \E k \in DOMAIN out[1] : out[1][k] = arg.prefix \o tw[i]

\* C11 as amended: the non-blank characters of the text come out in their
\* order and no two words are merged; a line break falls inside a word
\* only next to a hyphen of the word or when the word is longer than the
\* usable width, and such a word is not emitted whole: every piece of a
\* line is at most the usable width long.
C11_BreaksBetweenWords ==
    WrapApplied =>
       LET tw == Words(arg.text)
           ow == LineWords(out[1], arg.prefix)
           chars == Join(tw)
           usable == Usable(arg.prefix, arg.width)
       IN  /\ Join(ow) = chars
           /\ Ends(tw) \subseteq Ends(ow)
           /\ \A b \in Ends(ow) \ Ends(tw) :
                 \/ chars[b] = "-"
                 \/ chars[b + 1] = "-"
                 \/ Len(WordAt(tw, b)) > usable
           /\ \A j \in DOMAIN ow : Len(ow[j]) <= usable
           /\ \A k \in DOMAIN out[1] : Len(Behind(out[1][k], arg.prefix)) <= usable

\* A word of 21 letters at a usable width of 20: it is cut behind its 20th
\* letter and the rest shares the next line with the following word.
C11_Witness ==
    /\ WrapApplied
    /\ arg.prefix = RAIL
    /\ arg.width = 10
    /\ arg.text = Word(21) \o <<SP>> \o Word(3)
    /\ out[1] = <<RAIL \o Word(20), RAIL \o <<"a", SP>> \o Word(3)>>

\* f without each FALSE that follows a FALSE: the lines of one wrapped
\* segment count as one.
Collapse(f) ==
    LET keep == Ascending({i \in DOMAIN f : f[i] \/ i = 1 \/ f[i - 1]})
    IN  [k \in 1..Len(keep) |-> f[keep[k]]]

\* The number of characters other than blanks and newlines in s.
Ink(s) == Cardinality({i \in DOMAIN s : ~IsSpace(s[i])})

\* The offsets, counted in such characters, at which the pieces end.
PieceEnds(pieces) == {Ink(Join(SubSeq(pieces, 1, j))) : j \in 1..(Len(pieces) - 1)}

\* The output lines follow the segments segs, segment by segment: no line
\* holds text of two segments, every segment without a word gives exactly
\* one line, the prefix alone, and every other segment gives lines with text.
FollowsSegments(segs) ==
    LET lines == out[1]
        bodies == [k \in DOMAIN lines |-> Behind(lines[k], arg.prefix)]
    IN  /\ Collapse([k \in DOMAIN lines |-> lines[k] = arg.prefix])
             = Collapse([i \in DOMAIN segs |-> IsBlank(segs[i])])
        /\ PieceEnds(segs) \subseteq PieceEnds(bodies) \cup {0, Ink(arg.text)}
        /\ \A k \in DOMAIN lines : StartsWith(lines[k], arg.prefix)

\* C12 as stated, on the texts that begin with a word: the segments are the
\* pieces of the text between its newlines, the empty piece behind a
\* trailing newline among them; no line merges two segments and each empty
\* segment gives one line, the prefix.
C12_Original ==
    WrapApplied /\ arg.text # <<>> /\ ~IsSpace(arg.text[1])
       => FollowsSegments(str_split(arg.text))

\* The segments of the text: a newline at the end of the text ends the last
\* segment and starts no further one.
Segments(s) ==
    LET pieces == str_split(s)
    IN  IF pieces # <<>> /\ pieces[Len(pieces)] = <<>>
        THEN SubSeq(pieces, 1, Len(pieces) - 1)
        ELSE pieces

\* C12 as amended: the text is cut at its newlines first and no line merges
\* two segments; every empty segment before or between newlines gives
\* exactly one line, the prefix alone, while the newline that ends the text
\* gives no line of its own.
C12_SegmentsKeptApart ==
    WrapApplied =>
       /\ FollowsSegments(Segments(arg.text))
       /\ \A t \in TextTokens \ {<<NL>>} :
             arg.text = t \o <<NL>> => out[1] = _wrap_text(t, arg.prefix, arg.width)

\* Two newlines behind a word: one line for the empty segment between
\* them, none for the end of the text.
C12_Witness ==
    /\ WrapApplied
    /\ arg.prefix = BOLD_RAIL
    /\ arg.text = Word(3) \o <<NL, NL>>
    /\ out[1] = <<BOLD_RAIL \o Word(3), BOLD_RAIL>>

(***************************************************************************)
(* Properties of render_topics (SpecRender).  The output is read as the    *)
(* terminal shows it: cut into lines, the lines grouped into the blocks of *)
(* the topics, the colour codes taken out.                                 *)
(***************************************************************************)
RenderApplied == fn = "render_topics" /\ out # <<>>

OutLines == str_split(out[1])

\* The line without its colour codes.  A code starts at an ESC and holds
\* no other, so the codes are the matches that start at the ESCs.
CodeEnd(line, e) ==
    IF e + 1 <= Len(line) /\ line[e + 1] = "["
    THEN LET k == CHOOSE k \in (e + 2)..(Len(line) + 1) :
                      /\ k = Len(line) + 1 \/ line[k] \notin SgrClass
                      /\ \A j \in (e + 2)..(k - 1) : line[j] \in SgrClass
         IN  IF k <= Len(line) /\ line[k] = "m" THEN k ELSE 0
    ELSE 0
RECURSIVE PlainScan(_, _, _)
PlainScan(line, E, i) ==
    LET later == {e \in E : e >= i}
    IN  IF later = {} THEN SubSeq(line, i, Len(line))
        ELSE LET e == Min(later)
                 m == CodeEnd(line, e)
             IN  IF m = 0 THEN SubSeq(line, i, e) \o PlainScan(line, E, e + 1)
                 ELSE SubSeq(line, i, e - 1) \o PlainScan(line, E, m + 1)
Plain(line) == PlainScan(line, {i \in DOMAIN line : line[i] = ESC}, 1)
RECURSIVE PlainLines(_)
PlainLines(lines) ==
    IF lines = <<>> THEN <<>> ELSE <<Plain(Head(lines))>> \o PlainLines(Tail(lines))

\* The output as it is read: its lines, the same without their colour
\* codes, and the first and last line of each group of lines between the
\* empty lines, the blocks.
ViewOf(s) ==
    LET raw == str_split(s) \o <<>>
        cuts == Ascending({i \in DOMAIN raw : raw[i] = <<>>})
    IN  [raw |-> raw,
         plain |-> PlainLines(raw),
         from |-> [k \in 1..(Len(cuts) + 1) |-> IF k = 1 THEN 1 ELSE cuts[k - 1] + 1] \o <<>>,
         to |-> [k \in 1..(Len(cuts) + 1) |-> IF k = Len(cuts) + 1 THEN Len(raw) ELSE cuts[k] - 1] \o <<>>]
View == ViewOf(out[1])

\* The t-th block, with and without the colour codes, and its first line.
RawBlock(V, t) == SubSeq(V.raw, V.from[t], V.to[t])
PlainBlock(V, t) == SubSeq(V.plain, V.from[t], V.to[t])
TopicHeader(V, t) == V.plain[V.from[t]]

Contains(s, sub) == \E i \in 1..(Len(s) - Len(sub) + 1) : SubSeq(s, i, i + Len(sub) - 1) = sub
Occurrences(s, sub) ==
    Cardinality({i \in 1..(Len(s) - Len(sub) + 1) : SubSeq(s, i, i + Len(sub) - 1) = sub})
EndsWith(s, sub) == Len(s) >= Len(sub) /\ SubSeq(s, Len(s) - Len(sub) + 1, Len(s)) = sub

\* The nodes of the argument: topics, comments, and the topic of a node.
TopicIds(a) == Ascending({i \in 1..a.n : a.p[i] = 0})
CommentIds(a) == {i \in 1..a.n : a.p[i] # 0}
RECURSIVE TopicOf(_, _)
TopicOf(a, i) == IF a.p[i] = 0 THEN i ELSE TopicOf(a, a.p[i])
IsLastSibling(a, i) == i = Max({j \in 1..a.n : a.p[j] = a.p[i]})

\* The block of the topic that node i belongs to, colour codes taken out.
BlockOf(V, a, i) ==
    PlainBlock(V, CHOOSE j \in DOMAIN TopicIds(a) : TopicIds(a)[j] = TopicOf(a, i))

\* One block per topic.
OneBlockPerTopic(V) == Len(V.from) = Len(TopicIds(arg))

\* A header line is the line that names an author; the header of node i.
IsHeader(plain) == \E i \in DOMAIN plain : plain[i] = "@"
HeaderLines(block, i) ==
    {k \in DOMAIN block : Contains(block[k], <<"@">> \o UserName(i) \o <<SP>>)}
HeaderLine(block, i) == CHOOSE k \in HeaderLines(block, i) : TRUE

\* The lines under the header at h up to the next header: a node's body.
BodyLines(block, h) ==
    {k \in (h + 1)..Len(block) : \A j \in (h + 1)..k : ~IsHeader(block[j])}

\* What the tree shows left of the body of node i: the topic's rail, then
\* for each comment on the way down to i a rail if siblings follow it and
\* blanks if none does.
RECURSIVE Indent(_, _)
Indent(a, i) ==
    IF a.p[i] = 0 THEN <<GLYPH_RAIL, SP>>
    ELSE Indent(a, a.p[i]) \o (IF IsLastSibling(a, i) THEN <<SP, SP>> ELSE <<GLYPH_RAIL, SP>>)

\* Two lines agree behind the topic's own glyph, their first character.
SameBehindGlyph(line, expected) == line # <<>> /\ Tail(line) = Tail(expected)

DeletedIds(a) == {i \in CommentIds(a) : Fields(a, i).deleted}

\* The lines of the output that hold the text.
LinesWith(V, text) == {k \in DOMAIN V.raw : Contains(V.raw[k], text)}

\* C13: a deleted comment's message is rendered nowhere, whatever it is:
\* under its header stands one body line, "[deleted]" behind the comment's
\* body indent; the message shows once for each topic or undeleted comment
\* that has it and never for a deleted one, and the output is the same
\* whatever the message of the deleted comments is.
C13_DeletedMessageHidden ==
    RenderApplied /\ arg.n > 0 =>
       \E V \in {View} :
          /\ OneBlockPerTopic(V)
          /\ \A i \in DeletedIds(arg) :
                LET block == BlockOf(V, arg, i)
                    h == HeaderLine(block, i)
                IN  /\ Cardinality(HeaderLines(block, i)) = 1
                    /\ BodyLines(block, h) = {h + 1}
                    /\ SameBehindGlyph(block[h + 1],
                                       Indent(arg, i) \o <<"[", "d", "e", "l", "e", "t", "e", "d", "]">>)
          /\ Cardinality(LinesWith(V, SECRET))
                = Cardinality({i \in 1..arg.n : Fields(arg, i).message = SECRET}
                                 \ DeletedIds(arg))
          /\ arg.profile.deleted /\ arg.mark \subseteq CommentIds(arg) =>
                \A other \in {<<>>, Word(3) \o <<NL>> \o Word(3)} :
                   out[1] = render_topics(_make_topics([arg EXCEPT !.profile.message = other]),
                                          arg.me, arg.columns)

\* A topic with one comment, deleted, its message "secret".
C13_Witness ==
    /\ RenderApplied
    /\ arg.n = 2
    /\ arg.mark = {2}
    /\ arg.profile.deleted
    /\ arg.profile.message = SECRET
    /\ \E V \in {View} :
            /\ V.plain[Len(V.raw)] = <<GLYPH_CORNER, SP, SP, SP>> \o <<"[", "d", "e", "l", "e", "t", "e", "d", "]">>
            /\ LinesWith(V, SECRET) = {}

\* C14: among the children of any node, each child but the last is drawn
\* with the branch connector and hands the rail down to its body and its
\* subtree, the last child is drawn with the corner connector and hands
\* down blanks: the header of a comment stands behind the indent of its
\* parent and its connector, its body lines behind its own indent.
C14_ConnectorsAndRails ==
    RenderApplied /\ arg.n > 0 =>
       \E V \in {View} :
          /\ OneBlockPerTopic(V)
          /\ \A i \in CommentIds(arg) :
                LET block == BlockOf(V, arg, i)
                    connector == IF IsLastSibling(arg, i) THEN <<GLYPH_CORNER, SP>>
                                 ELSE <<GLYPH_BRANCH, SP>>
                    head == Indent(arg, arg.p[i]) \o connector \o <<"@">> \o UserName(i)
                IN  /\ Cardinality(HeaderLines(block, i)) = 1
                    /\ LET h == HeaderLine(block, i)
                       IN  /\ Len(block[h]) >= Len(head)
                           /\ SameBehindGlyph(SubSeq(block[h], 1, Len(head)), head)
                           /\ \A k \in BodyLines(block, h) :
                                 /\ Len(block[k]) >= Len(Indent(arg, i))
                                 /\ SameBehindGlyph(SubSeq(block[k], 1, Len(Indent(arg, i))),
                                                    Indent(arg, i))
          /\ \A t \in DOMAIN TopicIds(arg) :
                LET block == BlockOf(V, arg, TopicIds(arg)[t])
                IN  Cardinality({k \in DOMAIN block : IsHeader(block[k])})
                       = Cardinality({i \in 1..arg.n : TopicOf(arg, i) = TopicIds(arg)[t]})

\* A topic with two comments, the first with a reply: the first comment
\* hangs on a branch and hands the rail to its reply, the second hangs on
\* the corner.
C14_Witness ==
    /\ RenderApplied
    /\ arg.n = 4
    /\ arg.p = <<0, 1, 2, 1>>
    /\ arg.mark = {1}
    /\ arg.profile = [DefaultProfile EXCEPT !.message = <<>>]
    /\ \E V \in {View} :
            /\ LET block == BlockOf(V, arg, 1)
               IN  /\ Len(block) = 7
                   /\ StartsWith(block[2], <<"|", SP, "=", SP, "@", "u", "2", SP>>)
                   /\ block[3] = <<"|", SP, "|", SP, "n", "i", "c", "e", SP, "p", "o", "s", "t">>
                   /\ StartsWith(block[4], <<"|", SP, "|", SP, "L", SP, "@", "u", "3", SP>>)
                   /\ block[5] = <<"|", SP, "|", SP, SP, SP, "n", "i", "c", "e", SP, "p", "o", "s", "t">>
                   /\ StartsWith(block[6], <<"|", SP, "L", SP, "@", "u", "4", SP>>)
                   /\ block[7] = <<"L", SP, SP, SP, "n", "i", "c", "e", SP, "p", "o", "s", "t">>

\* The topic's glyphs as the output holds them, in bold.
BoldGlyph(g) == cl_BOLD \o <<g>> \o cl_ENDC

\* The root comments of the t-th topic, and the fields of that topic.
Roots(a, t) == {i \in 1..a.n : a.p[i] = TopicIds(a)[t]}
TopicFields(a, t) == Fields(a, TopicIds(a)[t])

\* C15: in every topic block the rail is turned into the closing corner on
\* the last line and on no other: the header starts with the top glyph,
\* every line between it and the last with the rail, the last line, and
\* only it, with the closing corner, which stands where the rail stood.
C15_OnlyLastLineCapped ==
    RenderApplied /\ arg.n > 0 =>
       \E V \in {View} :
          /\ OneBlockPerTopic(V)
          /\ \A t \in DOMAIN TopicIds(arg) :
                LET block == PlainBlock(V, t)
                    final == Len(block)
                IN  /\ final >= 2
                    /\ StartsWith(block[1], <<GLYPH_TOP, SP>>)
                    /\ \A k \in 2..(final - 1) : StartsWith(block[k], <<GLYPH_RAIL, SP>>)
                    /\ StartsWith(block[final], <<GLYPH_CORNER, SP>>)
                    /\ {k \in 1..final : block[k][1] = GLYPH_CORNER} = {final}
                    /\ StartsWith(RawBlock(V, t)[final], BoldGlyph(GLYPH_CORNER))

\* A topic with a message and one comment: four lines, the last capped.
C15_Witness ==
    /\ RenderApplied
    /\ arg.n = 2
    /\ arg.p = <<0, 1>>
    /\ arg.profile = DefaultProfile
    /\ \E V \in {View} :
            /\ Len(RawBlock(V, 1)) = 4
            /\ PlainBlock(V, 1)[2] = <<"|", SP, "n", "i", "c", "e", SP, "p", "o", "s", "t">>
            /\ StartsWith(PlainBlock(V, 1)[3], <<"|", SP, "L", SP, "@", "u", "2", SP>>)
            /\ PlainBlock(V, 1)[4] = <<"L", SP, SP, SP, "n", "i", "c", "e", SP, "p", "o", "s", "t">>

IsPlaceholder(plain) == Contains(plain, <<"(", "n", "o", SP, "c", "o", "m", "m", "e", "n", "t", "s", ")">>)

\* C16: a topic without root comments renders exactly one line holding
\* "(no comments)", begun by the closing corner, and no comment header; a
\* topic with a root comment renders no such line.
C16_NoCommentsPlaceholder ==
    RenderApplied /\ arg.n > 0 =>
       \E V \in {View} :
          /\ OneBlockPerTopic(V)
          /\ \A t \in DOMAIN TopicIds(arg) :
                LET block == PlainBlock(V, t)
                    holders == {k \in DOMAIN block : IsPlaceholder(block[k])}
                IN  IF Roots(arg, t) = {}
                    THEN /\ holders = {Len(block)}
                         /\ block[Len(block)] = <<GLYPH_CORNER, SP>> \o <<"(", "n", "o", SP, "c", "o", "m", "m", "e", "n", "t", "s", ")">>
                         /\ {k \in DOMAIN block : IsHeader(block[k])} = {1}
                    ELSE holders = {}

\* Two topics, neither with a comment: each block ends in the placeholder.
C16_Witness ==
    /\ RenderApplied
    /\ arg.n = 2
    /\ arg.p = <<0, 0>>
    /\ arg.profile = [DefaultProfile EXCEPT !.message = <<>>]
    /\ arg.mark = {1, 2}
    /\ \E V \in {View} :
            /\ PlainBlock(V, 1)[2] = <<GLYPH_CORNER, SP>> \o <<"(", "n", "o", SP, "c", "o", "m", "m", "e", "n", "t", "s", ")">>
            /\ Len(PlainBlock(V, 2)) = 2
            /\ PlainBlock(V, 2)[2] = <<GLYPH_CORNER, SP>> \o <<"(", "n", "o", SP, "c", "o", "m", "m", "e", "n", "t", "s", ")">>

\* C17: the header of a topic ends with the count phrase, "1 comment" for
\* a count of one and "N comments" for every other count, 0 included; the
\* phrase is never "1 comments".
C17_CountPhrase ==
    RenderApplied /\ arg.n > 0 =>
       \E V \in {View} :
          /\ OneBlockPerTopic(V)
          /\ \A t \in DOMAIN TopicIds(arg) :
                LET header == TopicHeader(V, t)
                    nc == TopicFields(arg, t).num_comments
                IN  /\ EndsWith(header, <<SP, GLYPH_DOT, SP>> \o Str(nc)
                                           \o (IF nc = 1 THEN <<SP, "c", "o", "m", "m", "e", "n", "t">> ELSE <<SP, "c", "o", "m", "m", "e", "n", "t", "s">>))
                    /\ ~EndsWith(header, <<GLYPH_DOT, SP>> \o <<"1", SP, "c", "o", "m", "m", "e", "n", "t", "s">>)
                    /\ nc = 1 => ~Contains(header, <<"1", SP, "c", "o", "m", "m", "e", "n", "t", "s">>)
                    /\ Occurrences(header, <<SP, "c", "o", "m", "m", "e", "n", "t">>) = 1

\* A topic that declares one comment.
C17_Witness ==
    /\ RenderApplied
    /\ arg.n = 2
    /\ arg.p = <<0, 1>>
    /\ arg.mark = {1}
    /\ arg.profile.num_comments = 1
    /\ \E V \in {View} :
            /\ EndsWith(PlainBlock(V, 1)[1], <<GLYPH_DOT, SP>> \o <<"1", SP, "c", "o", "m", "m", "e", "n", "t">>)

PUBLIC == <<"p", "u", "b", "l", "i", "c">>
ACTIVE == <<"a", "c", "t", "i", "v", "e">>
ARCHIVED == <<"a", "r", "c", "h", "i", "v", "e", "d">>

\* C18: the header of a topic shows the audience in a parenthesized tag
\* when it is not empty and the status only when it is neither empty nor
\* "active": with audience "public", status "active", no likes, no
\* dislikes and no comments the header holds "(public)" exactly once, no
\* "active" and no bracket; the status "archived" is shown.
C18_TopicTags ==
    RenderApplied /\ arg.n > 0 =>
       \E V \in {View} :
          /\ OneBlockPerTopic(V)
          /\ \A t \in DOMAIN TopicIds(arg) :
                LET header == TopicHeader(V, t)
                    f == TopicFields(arg, t)
                    shown == f.status \notin {<<>>, ACTIVE}
                IN  /\ ~Contains(header, ACTIVE)
                    /\ Contains(header, ARCHIVED) <=> f.status = ARCHIVED
                    /\ Occurrences(header, <<"(">> \o PUBLIC) = (IF f.audience = PUBLIC THEN 1 ELSE 0)
                    /\ f.audience = PUBLIC /\ ~shown => Occurrences(header, <<"(">> \o PUBLIC \o <<")">>) = 1
                    /\ f.audience = PUBLIC /\ shown
                          => Occurrences(header, <<"(">> \o PUBLIC \o <<",", SP>> \o f.status \o <<")">>) = 1
                    /\ f.audience = <<>> /\ shown => Occurrences(header, <<"(">> \o f.status \o <<")">>) = 1
                    /\ f.audience = <<>> /\ ~shown /\ ~f.edited => ~Contains(header, <<"(">>)
                    /\ ~Contains(header, <<"(", ")">>)
                    /\ f.audience = PUBLIC /\ f.status = ACTIVE /\ f.likes = 0 /\ f.dislikes = 0
                       /\ Roots(arg, t) = {}
                          => /\ Occurrences(header, <<"(">> \o PUBLIC \o <<")">>) = 1
                             /\ ~Contains(header, <<"[">>)
                             /\ ~Contains(header, <<"]">>)

\* The topic of the end-to-end example: public, active, no reactions, no
\* comments.
C18_Witness ==
    /\ RenderApplied
    /\ arg.n = 1
    /\ arg.profile = DefaultProfile
    /\ arg.me = <<>>
    /\ \E V \in {View} :
            /\ PlainBlock(V, 1)[1] = <<"/", SP, "@", "u", "1", SP, "*", SP, "5", "m", SP, "a", "g", "o", SP, "(", "p", "u", "b", "l", "i", "c", ")", SP, "*", SP, "0", SP, "c", "o", "m", "m", "e", "n", "t", "s">>

\* The bracket of reactions a header must hold, <<>> when it holds none.
Bracket(likes, dislikes) ==
    IF likes # 0 /\ dislikes # 0
    THEN <<"[", "+">> \o Str(likes) \o <<SP, "-">> \o Str(dislikes) \o <<"]">>
    ELSE IF likes # 0 THEN <<"[", "+">> \o Str(likes) \o <<"]">>
    ELSE IF dislikes # 0 THEN <<"[", "-">> \o Str(dislikes) \o <<"]">>
    ELSE <<>>

\* C19: the bracket of a header holds "+likes" only when likes is not zero
\* and "-dislikes" only when dislikes is not zero, in that order; when both
\* are zero there is no bracket: "[]" is never rendered.
C19_ReactionBracket ==
    RenderApplied /\ arg.n > 0 =>
       \E V \in {View} :
          /\ OneBlockPerTopic(V)
          /\ \A i \in 1..arg.n :
                LET block == BlockOf(V, arg, i)
                    header == block[HeaderLine(block, i)]
                    f == Fields(arg, i)
                    bracket == Bracket(f.likes, f.dislikes)
                IN  /\ Cardinality(HeaderLines(block, i)) = 1
                    /\ ~Contains(header, <<"[", "]">>)
                    /\ IF bracket = <<>>
                       THEN ~Contains(header, <<"[">>) /\ ~Contains(header, <<"]">>)
                       ELSE /\ Occurrences(header, <<SP>> \o bracket) = 1
                            /\ Occurrences(header, <<"[">>) = 1
                            /\ Occurrences(header, <<"]">>) = 1

\* A comment with five likes and two dislikes under a topic with none.
C19_Witness ==
    /\ RenderApplied
    /\ arg.n = 2
    /\ arg.p = <<0, 1>>
    /\ arg.mark = {2}
    /\ arg.profile.likes = 5
    /\ arg.profile.dislikes = 2
    /\ \E V \in {View} :
            /\ EndsWith(PlainBlock(V, 1)[3], <<"5", "m", SP, "a", "g", "o", SP, "[", "+", "5", SP, "-", "2", "]">>)
            /\ ~Contains(PlainBlock(V, 1)[1], <<"[">>)

EDITED == <<"(", "e", "d", "i", "t", "e", "d", ")">>
DELETED == <<"(", "d", "e", "l", "e", "t", "e", "d", ")">>

\* C20 as stated: the header of a comment holds "(edited)" when the comment
\* is edited and "(deleted)" when it is deleted, both when it is both.
C20_Original ==
    RenderApplied /\ arg.n > 0 =>
       \E V \in {View} :
          OneBlockPerTopic(V) =>
           \A i \in CommentIds(arg) :
                  LET block == BlockOf(V, arg, i)
                      header == block[HeaderLine(block, i)]
                      f == Fields(arg, i)
                  IN  /\ f.edited => Contains(header, EDITED)
                      /\ f.deleted => Contains(header, DELETED)

\* C20 as amended: the header of a comment holds, behind the timestamp and
\* before the reactions, "(edited)" when the comment is only edited,
\* "(deleted)" when it is only deleted, and the one marker
\* "(edited, deleted)" when it is both; it holds no marker when neither.
C20_MarkersInOneParenthesis ==
    RenderApplied /\ arg.n > 0 =>
       \E V \in {View} :
          /\ OneBlockPerTopic(V)
          /\ \A i \in CommentIds(arg) :
                LET block == BlockOf(V, arg, i)
                    header == block[HeaderLine(block, i)]
                    f == Fields(arg, i)
                    marker == IF f.edited /\ f.deleted THEN <<"(", "e", "d", "i", "t", "e", "d", ",", SP, "d", "e", "l", "e", "t", "e", "d", ")">>
                              ELSE IF f.edited THEN EDITED
                              ELSE IF f.deleted THEN DELETED
                              ELSE <<>>
                    bracket == Bracket(f.likes, f.dislikes)
                IN  /\ Cardinality(HeaderLines(block, i)) = 1
                    /\ IF marker = <<>> THEN ~Contains(header, <<"(">>)
                       ELSE /\ Occurrences(header, <<"(">>) = 1
                            /\ f.created # <<>> => Contains(header, <<"a", "g", "o", SP>> \o marker)
                            /\ IF bracket = <<>> THEN EndsWith(header, <<SP>> \o marker)
                               ELSE EndsWith(header, <<SP>> \o marker \o <<SP>> \o bracket)

\* A comment both edited and deleted, with likes.
C20_Witness ==
    /\ RenderApplied
    /\ arg.n = 2
    /\ arg.p = <<0, 1>>
    /\ arg.mark = {2}
    /\ arg.profile.edited
    /\ arg.profile.deleted
    /\ arg.profile.likes = 5
    /\ arg.profile.dislikes = 0
    /\ arg.me = <<>>
    /\ \E V \in {View} :
            /\ PlainBlock(V, 1)[3] = <<"|", SP, "L", SP, "@", "u", "2", SP, "*", SP, "5", "m", SP, "a", "g", "o", SP, "(", "e", "d", "i", "t", "e", "d", ",", SP, "d", "e", "l", "e", "t", "e", "d", ")", SP, "[", "+", "5", "]">>

\* The empty lines of the output.
EmptyLines(V) == {k \in DOMAIN V.raw : V.raw[k] = <<>>}

\* The lines a message takes: one for each line of its text, at least (the
\* width of the terminal may add more).
MessageLines(message) == Len(splitlines(message))

\* C21: the blocks of the topics stand in the order of the input, one empty
\* line between two blocks and none elsewhere: the output has one empty
\* line less than topics, none first, none last, no two in a row; the k-th
\* block opens with the header of the k-th topic; every other line shows
\* something, a blank line of a message its rail; a topic's block has at
\* least one line for its header, for each comment and for each line of
\* each message shown.
C21_BlocksInOrder ==
    RenderApplied /\ arg.n > 0 =>
       \E V \in {View} :
          /\ Cardinality(EmptyLines(V)) = Len(TopicIds(arg)) - 1
          /\ 1 \notin EmptyLines(V)
          /\ Len(V.raw) \notin EmptyLines(V)
          /\ \A k \in EmptyLines(V) : k + 1 \notin EmptyLines(V)
          /\ \A k \in DOMAIN V.raw \ EmptyLines(V) :
                LET plain == V.plain[k]
                IN  /\ plain # <<>>
                    /\ plain[1] \in {GLYPH_TOP, GLYPH_RAIL, GLYPH_CORNER}
          /\ \A t \in DOMAIN TopicIds(arg) :
                /\ StartsWith(TopicHeader(V, t), <<GLYPH_TOP, SP, "@">> \o UserName(TopicIds(arg)[t]) \o <<SP>>)
                /\ Len(RawBlock(V, t))
                      >= Cardinality({i \in 1..arg.n : TopicOf(arg, i) = TopicIds(arg)[t]})
                         + MessageLines(TopicFields(arg, t).message)

\* Two topics, the first with a message of two lines and a blank line
\* between them: the blank line shows as the rail, one empty line parts
\* the blocks.
C21_Witness ==
    /\ RenderApplied
    /\ arg.n = 2
    /\ arg.p = <<0, 0>>
    /\ arg.mark = {1}
    /\ arg.profile.message = Word(3) \o <<NL, NL>> \o Word(3) \o <<NL>>
    /\ \E V \in {View} :
            /\ EmptyLines(V) = {6}
            /\ V.plain[3] = <<GLYPH_RAIL, SP>>
            /\ Len(V.raw) = 9
            /\ StartsWith(V.plain[7], <<GLYPH_TOP, SP, "@", "u", "2", SP>>)

(***************************************************************************)
(* Properties of the fetch followed by the rendering (SpecShow).           *)
(***************************************************************************)
NO_TOPICS == <<"N", "o", SP, "t", "o", "p", "i", "c", "s">>

ShownLines == str_split(out[1])

\* C22: an empty list of topics is rendered as one line that reads
\* "No topics": whenever a call of fetch_topics_gql returned the empty list
\* (no item for the resource, or an item with no topics) the string shown
\* is that single line, muted, whatever the username and the terminal; a
\* list with topics is never shown so.
C22_EmptyShowsNoTopics ==
    pc = "shown" =>
       /\ result = <<>> =>
             /\ Len(ShownLines) = 1
             /\ Plain(ShownLines[1]) = NO_TOPICS
             /\ out[1] = cl_FGGRAY \o NO_TOPICS \o cl_ENDC
       /\ result # <<>> => \A k \in DOMAIN ShownLines : ~Contains(ShownLines[k], NO_TOPICS)

\* After a truncated response the resource is found to hold no topics: the
\* call returns the empty list, shown as "No topics".
C22_Witness ==
    /\ pc = "shown"
    /\ hist = <<"truncated", "complete">>
    /\ last.items = <<[topics |-> <<>>]>>
    /\ result = <<>>
    /\ Plain(out[1]) = NO_TOPICS

(***************************************************************************)
(* Properties of render_topics on sparse topics and comments (SpecSparse). *)
(***************************************************************************)
\* The nodes the argument still holds: those not under a marked node whose
\* list of children is absent, empty or null.
ChildrenField(a, i) == IF a.p[i] = 0 THEN "comments" ELSE "replies"
CutAt(a, i) == i \in a.mark /\ a.field \in {"*", ChildrenField(a, i)}
RECURSIVE Held(_, _)
Held(a, i) == a.p[i] = 0 \/ (~CutAt(a, a.p[i]) /\ Held(a, a.p[i]))

\* C23: render_topics does not raise when a field of a topic or comment is
\* absent, empty or null: the call returns, and its output has a header for
\* every topic and comment the argument holds.
C23_NeverRaises ==
    fn = "render_topics" /\ "field" \in DOMAIN arg =>
       /\ exc = ""
       /\ out # <<>> =>
             Cardinality({k \in DOMAIN OutLines : IsHeader(Plain(OutLines[k]))})
                = Cardinality({i \in 1..arg.n : Held(arg, i)})

\* Every occurrence of old in s replaced by new (new does not hold old).
RECURSIVE ReplaceAll(_, _, _)
ReplaceAll(s, old, new) ==
    IF Contains(s, old) THEN ReplaceAll(ReplaceFirst(s, old, new), old, new) ELSE s

\* The username as it is written for its owner and for everybody else.
Highlighted(username) == cl_WARNING \o <<"@">> \o username \o cl_ENDC
Ordinary(username) == cl_OKCYAN \o <<"@">> \o username \o cl_ENDC

\* The output with the highlight of me taken off, and put on.
Unstyled(s, me) == IF me = <<>> THEN s ELSE ReplaceAll(s, Highlighted(me), Ordinary(me))
Styled(s, me) == IF me = <<>> THEN s ELSE ReplaceAll(s, Ordinary(me), Highlighted(me))

\* C24: the caller's username changes colours only.  Rendering the same
\* topics for any other username gives the same lines of visible text, and
\* the two outputs differ exactly in the colour code in front of the
\* usernames equal to the one or the other caller.
C24_MeOnlyStyles ==
    RenderApplied /\ arg.n > 0 =>
       \E V \in {View} :
          \E given \in {_make_topics(arg)}, shown \in {V.plain} :
             \A me \in MeValues \ {arg.me} :
                \E other \in {render_topics(given, me, arg.columns)} :
                   /\ PlainLines(str_split(other)) = shown
                   /\ Len(other) = Len(out[1])
                   /\ other = Styled(Unstyled(out[1], arg.me), me)
                   /\ (other # out[1]) <=> \E i \in 1..arg.n : UserName(i) \in {me, arg.me}

\* A topic by u1 with a comment by u2, rendered for u2: the comment's
\* username is highlighted, the topic's is not, and for nobody the output
\* is another string with the same text.
C24_Witness ==
    /\ RenderApplied
    /\ arg.n = 2
    /\ arg.p = <<0, 1>>
    /\ arg.me = UserName(2)
    /\ arg.columns = 30
    /\ \E V \in {View} :
            /\ Contains(out[1], Highlighted(UserName(2)))
            /\ Contains(out[1], Ordinary(UserName(1)))
            /\ out[1] # render_topics(_make_topics(arg), <<>>, arg.columns)
            /\ V.plain = PlainLines(str_split(render_topics(_make_topics(arg), <<>>, arg.columns)))

(***************************************************************************)
(* Properties of _relative_time (SpecTime).                                *)
(***************************************************************************)

TimeApplied == fn = "_relative_time" /\ out # <<>>

\* The number a string of digits writes, -1 if it is no such string.
RECURSIVE IntOf(_)
IntOf(s) ==
    IF s = <<>> \/ \E i \in DOMAIN s : s[i] \notin {Digits[k] : k \in DOMAIN Digits} THEN -1
    ELSE LET d == (CHOOSE k \in DOMAIN Digits : Digits[k] = s[Len(s)]) - 1
         IN  IF Len(s) = 1 THEN d ELSE 10 * IntOf(SubSeq(s, 1, Len(s) - 1)) + d

\* s is "Mon DD, YYYY" for the date of dt.
IsAbsoluteDate(s, dt) ==
    /\ Len(s) = 12
    /\ SubSeq(s, 1, 3) = MonthAbbr[dt.month]
    /\ s[4] = SP /\ s[7] = "," /\ s[8] = SP
    /\ IntOf(SubSeq(s, 5, 6)) = dt.day
    /\ IntOf(SubSeq(s, 9, 12)) = dt.year

\* s is the number n followed by the unit letter and " ago".
IsAgo(s, n, unit) == s = Str(n) \o <<unit>> \o <<SP, "a", "g", "o">>

\* C25: for an age of s whole seconds the result is "just now" below 60,
\* s div 60 minutes below 3600, s div 3600 hours below 86400, s div 86400
\* days below 30 days, and the date "Mon DD, YYYY" from there on; an age on
\* a bound belongs to the later range.
C25_RelativeTimeRanges ==
    TimeApplied =>
       LET s == arg.seconds
       IN  /\ s < 60 => out[1] = <<"j", "u", "s", "t", SP, "n", "o", "w">>
           /\ 60 <= s /\ s < 3600 => IsAgo(out[1], s \div 60, "m")
           /\ 3600 <= s /\ s < 86400 => IsAgo(out[1], s \div 3600, "h")
           /\ 86400 <= s /\ s < 30 * 86400 => IsAgo(out[1], s \div 86400, "d")
           /\ 30 * 86400 <= s => IsAbsoluteDate(out[1], arg)

\* An age of exactly one hour is "1h ago", not "60m ago".
C25_Witness ==
    /\ TimeApplied
    /\ arg.seconds = 3600
    /\ out[1] = <<"1", "h", SP, "a", "g", "o">>

(***************************************************************************)
(* Properties of merge_from_index (SpecMerge).                             *)
(***************************************************************************)

MergeApplied == fn = "merge_from_index" /\ out # <<>>

\* The offset: io when given, else the levels of the columns, 1 for an Index.
OffsetOf(a) ==
    IF a.io # NullInt THEN a.io
    ELSE IF a.src.kind = "DataFrame" THEN a.src.columns_nlevels ELSE 1

\* The maximal runs of two or more equal labels, as <<first, last>> row
\* positions counted from 0.
RunsOf(values) ==
    {r \in (0..(Len(values) - 1)) \X (0..(Len(values) - 1)) :
        /\ r[1] < r[2]
        /\ \A i \in (r[1] + 1)..(r[2] + 1) : values[i] = values[r[1] + 1]
        /\ r[1] = 0 \/ values[r[1]] # values[r[1] + 1]
        /\ r[2] + 1 = Len(values) \/ values[r[2] + 2] # values[r[2] + 1]}

\* The runs of all levels, level by level and from the top row down, as
\* <<first, last, level>>.
RECURSIVE RunsFrom(_, _)
RunsFrom(index, level) ==
    IF level = Len(index) THEN <<>>
    ELSE LET runs == RunsOf(index[level + 1])
             starts == Ascending({r[1] : r \in runs})
         IN  [k \in DOMAIN starts |->
                 <<starts[k], (CHOOSE r \in runs : r[1] = starts[k])[2], level>>]
             \o RunsFrom(index, level + 1)

\* C26: the result holds one line "start:end level lblN" for every maximal
\* run of two or more rows with the same label at a level, level by level
\* and top down, start and end the first and last row of the run plus the
\* offset, N the number of the line; a run of one row gives no line, and an
\* index without rows or without such a run gives the empty string.
C26_OneInstructionPerRun ==
    MergeApplied =>
       \E runs \in {RunsFrom(arg.src.index, 0)}, off \in {OffsetOf(arg)} :
          /\ out[1] = JoinWith([k \in DOMAIN runs |->
                                   Str(runs[k][1] + off) \o <<":">> \o Str(runs[k][2] + off)
                                      \o <<SP>> \o Str(runs[k][3]) \o <<SP>> \o <<"l", "b", "l">> \o Str(k)],
                               <<NL>>)
          /\ Len(arg.src.index[1]) = 0 => out[1] = <<>>

\* A DataFrame with two levels of columns and the index (A, A), (A, B),
\* (B, B), (B, B): two runs at level 0, one at level 1, the single A of
\* level 1 left alone.
C26_Witness ==
    /\ MergeApplied
    /\ arg.src.kind = "DataFrame"
    /\ arg.src.columns_nlevels = 2
    /\ arg.io = NullInt
    /\ arg.src.index = <<<<"A", "A", "B", "B">>, <<"A", "B", "B", "B">>>>
    /\ out[1] = <<"2", ":", "3", SP, "0", SP, "l", "b", "l", "1", NL, "4", ":", "5", SP, "0", SP, "l", "b", "l", "2", NL, "3", ":", "5", SP, "1", SP, "l", "b", "l", "3">>

(***************************************************************************)
(* Properties of _aggregate_activity (SpecActivity).                       *)
(***************************************************************************)

ActivityApplied == fn = "_aggregate_activity" /\ out # <<>>

\* The topics of the item, none when the field is absent or null.
TopicsOf(item) == OrList(Get(item, "topics", <<>>))

\* C27: the result holds the sums over the topics of the comment counts,
\* the likes and the dislikes, so that one topic with num_comments 5,
\* likes 3 and dislikes 1 gives 5, 3 and 1; an item without topics gives
\* three zeros.
C27_SumsOverTopics ==
    ActivityApplied /\ (\A k \in DOMAIN TopicsOf(arg) : "likes" \in DOMAIN TopicsOf(arg)[k]) =>
       \E ts \in {TopicsOf(arg)} :
          /\ out[1]._comments = Sum([k \in DOMAIN ts |-> ts[k].num_comments])
          /\ out[1]._likes = Sum([k \in DOMAIN ts |-> ts[k].likes])
          /\ out[1]._dislikes = Sum([k \in DOMAIN ts |-> ts[k].dislikes])

(***************************************************************************)
(* Properties of fetch_topics_gql against the faithful backend             *)
(* (SpecFaithful).                                                         *)
(***************************************************************************)

\* How many levels of replies lie below a comment.
RECURSIVE LevelsBelow(_)
LevelsBelow(c) ==
    IF GetReplies(c) = <<>> THEN 0
    ELSE 1 + Max({LevelsBelow(GetReplies(c)[k]) : k \in DOMAIN GetReplies(c)})

\* The deepest reply of the topics, in levels below its root comment.
Deepest(ts) ==
    Max({0} \cup UNION {{LevelsBelow(ts[t].comments[k]) : k \in DOMAIN ts[t].comments}
                          : t \in DOMAIN ts})

\* The comments as they are materialized, every one with its replies.
RECURSIVE Materialized(_)
Materialized(comments) ==
    [k \in DOMAIN comments |->
        [num_replies |-> comments[k].num_replies,
         replies |-> Materialized(GetReplies(comments[k]))]]

CeilDiv(a, b) == (a + b - 1) \div b

\* C28: with a backend that cuts the tree below the level of the query and
\* nowhere else, a call on a tree whose deepest reply is D <= 12 levels
\* below a root comment returns the whole tree, no comment of it
\* truncated, after max(1, ceil(D / 3)) requests; and after every answer
\* the call has found a cut exactly when the tree goes deeper than the
\* query's replies nest, the k-th query nesting 3k levels.
C28_CompleteTreeAfterCeil ==
    fn = "backend" =>
       \E D \in {Deepest(arg)} :
          /\ pc = "returned" /\ D <= max_depth =>
                /\ Len(result) = Len(arg)
                /\ \A t \in DOMAIN result :
                      /\ Materialized(result[t].comments) = arg[t].comments
                      /\ ~Incomplete(result[t].comments)
                /\ Len(sent) = Max({1, CeilDiv(D, 3)})
          /\ pc \in {"loop", "returned"} /\ hist # <<>> =>
                /\ ReplyNesting(sent[Len(sent)]) = 3 * Len(sent)
                /\ truncated(topics) <=> D > ReplyNesting(sent[Len(sent)])
                /\ hist[Len(hist)] = "truncated" <=> truncated(topics)

\* A thread twelve levels deep has come back whole with the fourth request,
\* and one of seven levels with the third.
C28_Witness ==
    /\ fn = "backend"
    /\ pc = "returned"
    /\ Deepest(arg) \in {7, 12}
    /\ Len(sent) = CeilDiv(Deepest(arg), 3)
    /\ Deepest(arg) = 12 => Len(sent) = 4
    /\ Materialized(result[1].comments) = arg[1].comments
    /\ hist[Len(hist)] = "complete"

\* The comments below node par in the order of a walk that takes a comment,
\* then its replies in list order, then its next sibling.
RECURSIVE PreOrder(_, _)
RECURSIVE PreOrderOf(_, _)
PreOrder(a, par) == PreOrderOf(a, Ascending({i \in 1..a.n : a.p[i] = par}))
PreOrderOf(a, cs) ==
    IF cs = <<>> THEN <<>>
    ELSE <<Head(cs)>> \o PreOrder(a, Head(cs)) \o PreOrderOf(a, Tail(cs))

\* How many levels comment i lies below the root comment of its thread.
RECURSIVE Level(_, _)
Level(a, i) == IF a.p[a.p[i]] = 0 THEN 0 ELSE 1 + Level(a, a.p[i])

\* The column of the "@" in the header of a root comment.
RootColumn == Len(<<GLYPH_RAIL, SP, GLYPH_BRANCH, SP>>) + 1

\* C29: under the header of each topic the header lines are those of its
\* comments, one for each and in the order of the depth-first walk; the
\* name in the header of a comment k levels below a root comment stands 2k
\* columns right of where a root comment has it; the body of a comment
\* follows its header at once; and under a deleted comment, behind its
\* "[deleted]" line, its replies are drawn like any others.
C29_PreOrderHeaders ==
    RenderApplied /\ arg.n > 0 =>
       \E V \in {View} :
          /\ OneBlockPerTopic(V)
          /\ \A t \in DOMAIN TopicIds(arg) :
                \E block \in {PlainBlock(V, t)}, order \in {PreOrder(arg, TopicIds(arg)[t])} :
                   \E heads \in {Ascending({k \in 2..Len(block) : IsHeader(block[k])})} :
                      /\ Len(heads) = Len(order)
                      /\ \A j \in DOMAIN order :
                            LET line == block[heads[j]]
                                at == RootColumn + 2 * Level(arg, order[j])
                                name == <<"@">> \o UserName(order[j]) \o <<SP>>
                                f == Fields(arg, order[j])
                            IN  /\ SubSeq(line, at, at + Len(name) - 1) = name
                                /\ \A i \in 1..(at - 1) : line[i] # "@"
                                /\ f.deleted =>
                                      /\ heads[j] < Len(block)
                                      /\ EndsWith(block[heads[j] + 1], <<"[", "d", "e", "l", "e", "t", "e", "d", "]">>)
                                /\ ~f.deleted /\ f.message # <<>> =>
                                      /\ heads[j] < Len(block)
                                      /\ ~IsHeader(block[heads[j] + 1])

\* Topic u1 with the comments u2 and u3, u2 deleted and with the reply u4:
\* the headers stand in the order u2, u4, u3, u4 two columns right of u2
\* and below the "[deleted]" line of u2.
C29_Witness ==
    /\ RenderApplied
    /\ arg.n = 4
    /\ arg.p = <<0, 1, 1, 2>>
    /\ arg.mark = {2}
    /\ arg.profile.deleted
    /\ \E V \in {View} :
            /\ Len(V.plain) >= 7
            /\ StartsWith(V.plain[3], <<"|", SP, "=", SP, "@", "u", "2", SP>>)
            /\ EndsWith(V.plain[4], <<"[", "d", "e", "l", "e", "t", "e", "d", "]">>)
            /\ StartsWith(V.plain[5], <<"|", SP, "|", SP, "L", SP, "@", "u", "4", SP>>)
            /\ StartsWith(V.plain[7], <<"|", SP, "L", SP, "@", "u", "3", SP>>)

(***************************************************************************)
(* Properties of _transform_orgs_response (SpecOrgs).                      *)
(***************************************************************************)

OrgsApplied == fn = "_transform_orgs_response" /\ out # <<>>

\* The list of the caller's groups under a role, and the places <<r, k>>
\* (role of rank r, k-th of its list) where the body holds an org.
ListUnder(data, role) == OrList(Get(OrObject(Get(data, "me", EmptyObject)), role, <<>>))
Rank(role) == CHOOSE r \in 1..4 : <<"founder", "admin", "superuser", "member">>[r] = role
OrgPlaces(data) ==
    UNION {{<<Rank(role), k>> : k \in {j \in DOMAIN ListUnder(data, role) :
                                            ListUnder(data, role)[j].type = "org"}}
             : role \in {"founder", "admin", "superuser", "member"}}
IdAt(data, pl) == ListUnder(data, <<"founder", "admin", "superuser", "member">>[pl[1]])[pl[2]].id

\* The first place of an org id: under its highest role, first of the list.
Before(p1, p2) == p1[1] < p2[1] \/ (p1[1] = p2[1] /\ p1[2] < p2[2])
FirstPlace(data, id) ==
    CHOOSE pl \in OrgPlaces(data) :
        /\ IdAt(data, pl) = id
        /\ \A q \in OrgPlaces(data) : IdAt(data, q) = id /\ q # pl => Before(pl, q)

\* C30: the result holds one entry for each id that a group of type "org"
\* has under some role, and no other; the ids are pairwise distinct; the
\* role of an entry is the highest role under which an org of its id
\* stands; the entries are ordered by that role and, within a role, by the
\* place in its list.
C30_OrgsOnceHighestRole ==
    OrgsApplied =>
       \E res \in {out[1]}, places \in {OrgPlaces(arg)} :
          /\ {res[i].id : i \in DOMAIN res} = {IdAt(arg, pl) : pl \in places}
          /\ \A i, j \in DOMAIN res : i # j => res[i].id # res[j].id
          /\ \A i \in DOMAIN res :
                Rank(res[i].role) = FirstPlace(arg, res[i].id)[1]
          /\ \A i, j \in DOMAIN res :
                i < j => Before(FirstPlace(arg, res[i].id), FirstPlace(arg, res[j].id))

\* The org "a" is listed under admin, "b" under founder as a group that is
\* no org and under member as an org: the result is "a" as admin, then "b"
\* as member.
C30_Witness ==
    /\ OrgsApplied
    /\ Len(ListUnder(arg, "member")) = 1
    /\ ListUnder(arg, "member")[1].id = "b" /\ ListUnder(arg, "member")[1].type = "org"
    /\ Len(ListUnder(arg, "admin")) = 1
    /\ ListUnder(arg, "admin")[1].id = "a" /\ ListUnder(arg, "admin")[1].type = "org"
    /\ Len(ListUnder(arg, "founder")) = 1
    /\ ListUnder(arg, "founder")[1].id = "b" /\ ListUnder(arg, "founder")[1].type = "org_group"
    /\ Len(out[1]) = 2
    /\ out[1][1].id = "a" /\ out[1][1].role = "admin"
    /\ out[1][1].members_count = 3 /\ out[1][1].groups_count = 2 /\ out[1][1].plots = 3
    /\ out[1][2].id = "b" /\ out[1][2].role = "member"

====
